---------------------------- MODULE Spec2Model ----------------------------
(***************************************************************************)
(* Kuhn poker (elanzuo/cfr-lab): the extensive-form game state machine of  *)
(* src/kuhn/kuhn_poker.py, modelled as operators over a state record, and  *)
(* two drivers of it: legal play (the way the CFR solver walks the tree)   *)
(* and an arbitrary caller that may pass any action to any state.          *)
(*                                                                         *)
(* Python lists are modelled as follows: history is a sequence (Python     *)
(* index i is TLA+ index i+1); card_dealt and ante are functions over      *)
(* 0..len-1.  ante, bet_size and pot are floats in the source; the model   *)
(* draws them from small positive integers, on which float arithmetic is   *)
(* exact.                                                                  *)
(***************************************************************************)
EXTENDS Integers, Sequences, FiniteSets, TLC

\* ------------------------------------------------------------------ bounds
MaxPlayers == 3
MaxAnte == 2
MaxBet == 2
\* longest history the arbitrary caller is allowed to build
MaxHist == 6

\* ------------------------------------------------------- program constants
PASS == 0
BET == 1
INVALID_PLAYER == -1
CHANCE_PLAYER == -1
TERMINAL_PLAYER == -2

VARIABLES
    config,   \* KuhnConfig: num_players, ante, bet_size, enable_checks
    state,    \* the KuhnState object being driven
    call,     \* the last operation called on state: [op, arg]
    raised,   \* the exception that call raised, or "none"
    outcomes, \* the value the last chance_outcomes() returned
    other,    \* a second KuhnState object: built on its own, or state.clone()
    origin,   \* how other was made: "new" or "clone"
    shared,   \* the list attributes that state and other hold as one object
    gemini_state, \* a gemini/kuhn_poker.py KuhnState driven alongside state
    gpt_state,    \* a gpt/kuhn_poker.py KuhnState driven alongside state
    nodes,    \* CFRSolver.nodes: information-set key -> CFRNode
    stack,    \* the active calls of CFRSolver._cfr, the innermost last
    ret,      \* the value the last finished call returned
    iteration,            \* train_step() calls completed
    visited_keys,         \* keys whose node the running train_step updated
    evaluated_terminals,  \* terminal histories the running train_step evaluated
    snapshot,     \* the dict the last get_snapshot() returned
    snap_shared,  \* <<key, field>>: snapshot vectors that are the node's own array
    session_state, \* gemini/app.py: st.session_state of the visualizer session
    page          \* gemini/app.py: what the last script run put on the page

pairVars == <<other, origin, shared>>

variantVars == <<gemini_state, gpt_state>>

appVars == <<session_state, page>>

cfrVars == <<nodes, stack, ret, iteration, visited_keys, evaluated_terminals,
             snapshot, snap_shared>>

vars == <<config, state, call, raised, outcomes, other, origin, shared,
          gemini_state, gpt_state,
          nodes, stack, ret, iteration, visited_keys, evaluated_terminals,
          snapshot, snap_shared, session_state, page>>

\* ----------------------------------------------------------------- helpers
RECURSIVE SumOver(_, _)
SumOver(f, S) ==
    IF S = {} THEN 0
    ELSE LET x == CHOOSE y \in S : TRUE IN f[x] + SumOver(f, S \ {x})

MaxOf(S) == CHOOSE x \in S : \A y \in S : y <= x

\* Python list indexing: a negative index counts from the end.
\* Optional[int]: None, or an integer
None == [none |-> TRUE, value |-> 0]
Some(v) == [none |-> FALSE, value |-> v]

PyValidIndex(i, len) == -len <= i /\ i < len
PyIndex(i, len) == IF i < 0 THEN i + len ELSE i

\* Mutant of new_initial_state: the deck has two cards more than players.
new_initial_state_two_spare_cards(c) ==
    [ num_players   |-> c.num_players,
      deck_size     |-> c.num_players + 2,
      bet_size      |-> c.bet_size,
      enable_checks |-> c.enable_checks,
      history       |-> << >>,
      card_dealt    |-> [card \in 0..(c.num_players + 1) |-> INVALID_PLAYER],
      first_bettor  |-> INVALID_PLAYER,
      winner        |-> INVALID_PLAYER,
      pot           |-> c.ante * c.num_players,
      ante          |-> [p \in 0..(c.num_players - 1) |-> c.ante] ]

\* ------------------------------------------------------------- KuhnState
\* KuhnState.__init__ / KuhnPokerGame.new_initial_state
new_initial_state(c) ==
    [ num_players   |-> c.num_players,
      deck_size     |-> c.num_players + 1,
      bet_size      |-> c.bet_size,
      enable_checks |-> c.enable_checks,
      history       |-> << >>,
      card_dealt    |-> [card \in 0..c.num_players |-> INVALID_PLAYER],
      first_bettor  |-> INVALID_PLAYER,
      winner        |-> INVALID_PLAYER,
      pot           |-> c.ante * c.num_players,
      ante          |-> [p \in 0..(c.num_players - 1) |-> c.ante] ]

is_terminal(s) == s.winner # INVALID_PLAYER

\* Mutant of current_player: the turn is counted one seat too far.
current_player_next_seat(s) ==
    IF is_terminal(s) THEN TERMINAL_PLAYER
    ELSE IF Len(s.history) < s.num_players THEN CHANCE_PLAYER
    ELSE (Len(s.history) + 1) % s.num_players

current_player(s) ==
    IF is_terminal(s) THEN TERMINAL_PLAYER
    ELSE IF Len(s.history) < s.num_players THEN CHANCE_PLAYER
    ELSE Len(s.history) % s.num_players

is_chance_node(s) == current_player(s) = CHANCE_PLAYER

\* Mutant of did_bet: every player is looked up in the first round, also
\* the players seated before the first bettor.
did_bet_first_round(s, player) ==
    IF s.first_bettor = INVALID_PLAYER THEN FALSE
    ELSE IF player = s.first_bettor THEN TRUE
    ELSE LET idx == s.num_players + player IN
         IF idx >= Len(s.history) THEN FALSE
         ELSE s.history[idx + 1] = BET

\* Mutant of did_bet: the second-round offset is one entry short, so the
\* lookup for a player seated before the first bettor lands on the action
\* of the seat before.
did_bet_reads_neighbour(s, player) ==
    IF s.first_bettor = INVALID_PLAYER THEN FALSE
    ELSE IF player = s.first_bettor THEN TRUE
    ELSE IF player > s.first_bettor
         THEN LET idx == s.num_players + player IN
              IF idx >= Len(s.history) THEN FALSE
              ELSE s.history[idx + 1] = BET
         ELSE LET idx == s.num_players * 2 + player - 1 IN
              IF idx < Len(s.history) THEN s.history[idx + 1] = BET
              ELSE FALSE

\* did_bet: positional lookup of the player's response to the first bet.
did_bet(s, player) ==
    IF s.first_bettor = INVALID_PLAYER THEN FALSE
    ELSE IF player = s.first_bettor THEN TRUE
    ELSE IF player > s.first_bettor
         THEN LET idx == s.num_players + player IN
              IF idx >= Len(s.history) THEN FALSE
              ELSE s.history[idx + 1] = BET
         ELSE LET idx == s.num_players * 2 + player IN
              IF idx < Len(s.history) THEN s.history[idx + 1] = BET
              ELSE FALSE

\* Mutant of legal_set: a chance node offers every card, dealt or not.
legal_set_whole_deck(s) ==
    IF is_terminal(s) THEN {}
    ELSE IF is_chance_node(s)
         THEN 0..(s.deck_size - 1)
         ELSE {PASS, BET}

\* legal_actions, as the ascending list of actions.
legal_set(s) ==
    IF is_terminal(s) THEN {}
    ELSE IF is_chance_node(s)
         THEN {card \in 0..(s.deck_size - 1) : s.card_dealt[card] = INVALID_PLAYER}
         ELSE {PASS, BET}

RECURSIVE SortedSeq(_)
SortedSeq(S) ==
    IF S = {} THEN << >>
    ELSE LET m == MaxOf(S) IN Append(SortedSeq(S \ {m}), m)

legal_actions(s) == SortedSeq(legal_set(s))

\* Mutant of returns: the winner is paid the whole pot, the own contribution
\* is not subtracted.
returns_winner_takes_pot(s) ==
    IF ~is_terminal(s) THEN [p \in 0..(s.num_players - 1) |-> 0]
    ELSE [p \in 0..(s.num_players - 1) |->
            IF p = s.winner THEN s.pot ELSE -s.ante[p]]

\* returns(): winner gets pot - own contribution, every other player loses
\* the own contribution; all zero off a terminal state.
returns(s) ==
    IF ~is_terminal(s) THEN [p \in 0..(s.num_players - 1) |-> 0]
    ELSE [p \in 0..(s.num_players - 1) |->
            IF p = s.winner THEN s.pot - s.ante[p] ELSE -s.ante[p]]

\* Mutant of gemini_did_bet: a player seated after the first bettor is looked
\* up in the second round, where the history has no entry for that player.
gemini_did_bet_second_round(s, player) ==
    IF s.first_bettor = INVALID_PLAYER THEN [raised |-> "none", value |-> FALSE]
    ELSE IF player = s.first_bettor THEN [raised |-> "none", value |-> TRUE]
    ELSE LET idx == s.num_players * 2 + player IN
         IF player > s.first_bettor
         THEN IF ~PyValidIndex(idx, Len(s.history))
              THEN [raised |-> "IndexError", value |-> FALSE]
              ELSE [raised |-> "none",
                    value  |-> s.history[PyIndex(idx, Len(s.history)) + 1] = BET]
         ELSE [raised |-> "none",
               value  |-> idx < Len(s.history) /\ s.history[idx + 1] = BET]

\* gemini/kuhn_poker.py, KuhnState._did_bet(player): the lookup of a player
\* seated after the first bettor is self.history[idx] with no bounds check,
\* an IndexError when idx is past the end.
gemini_did_bet(s, player) ==
    IF s.first_bettor = INVALID_PLAYER THEN [raised |-> "none", value |-> FALSE]
    ELSE IF player = s.first_bettor THEN [raised |-> "none", value |-> TRUE]
    ELSE IF player > s.first_bettor
    THEN LET idx == s.num_players + player IN
         IF ~PyValidIndex(idx, Len(s.history))
         THEN [raised |-> "IndexError", value |-> FALSE]
         ELSE [raised |-> "none",
               value  |-> s.history[PyIndex(idx, Len(s.history)) + 1] = BET]
    ELSE LET idx == s.num_players * 2 + player IN
         [raised |-> "none",
          value  |-> idx < Len(s.history) /\ s.history[idx + 1] = BET]

\* gemini/kuhn_poker.py returns(): the contribution is not read from ante
\* but recomputed as 2 if _did_bet(p) else 1 (ante and bet size are fixed
\* to 1 there).  _did_bet is did_bet without the bounds check for players
\* after the first bettor; gemini_did_bet_in_range says that its index exists.
gemini_did_bet_in_range(s, player) ==
    (s.first_bettor # INVALID_PLAYER /\ player > s.first_bettor)
        => s.num_players + player < Len(s.history)

gemini_returns(s) ==
    IF ~is_terminal(s) THEN [p \in 0..(s.num_players - 1) |-> 0]
    ELSE [p \in 0..(s.num_players - 1) |->
            LET bet == IF gemini_did_bet(s, p).value THEN 2 ELSE 1 IN
            IF p = s.winner THEN s.pot - bet ELSE -bet]

\* chance_outcomes(): the uniform distribution over legal_actions(); a
\* probability 1.0 / k is the pair <<1, k>>.
chance_outcomes(s) ==
    IF s.enable_checks /\ ~is_chance_node(s)
    THEN [raised |-> "RuntimeError", value |-> << >>]
    ELSE LET actions == legal_actions(s) IN
         IF Len(actions) = 0
         THEN [raised |-> "ZeroDivisionError", value |-> << >>]
         ELSE [raised |-> "none",
               value  |-> [i \in 1..Len(actions) |-> <<actions[i], <<1, Len(actions)>>>>]]

\* Mutant of deal_card: the card goes to the player whose own index equals
\* the card value instead of the player next in dealing order.
deal_card_to_card_index(s, action) ==
    [s EXCEPT !.card_dealt[PyIndex(action, s.deck_size)] =
                  PyIndex(action, s.deck_size) % s.num_players]

\* apply_action, chance branch: card_dealt[action] = len(history).
deal_card(s, action) ==
    [s EXCEPT !.card_dealt[PyIndex(action, s.deck_size)] = Len(s.history)]

\* Mutant of place_bet: the pot grows but the bettor's contribution does not.
place_bet_no_contribution(s, curr_player) ==
    [s EXCEPT !.first_bettor = IF s.first_bettor = INVALID_PLAYER
                               THEN curr_player ELSE s.first_bettor,
              !.pot = s.pot + s.bet_size]

\* Mutant of place_bet: a bet is always one unit, whatever bet_size is.
place_bet_unit_bet(s, curr_player) ==
    [s EXCEPT !.first_bettor = IF s.first_bettor = INVALID_PLAYER
                               THEN curr_player ELSE s.first_bettor,
              !.pot = s.pot + 1,
              !.ante[PyIndex(curr_player, s.num_players)] =
                    s.ante[PyIndex(curr_player, s.num_players)] + 1]

\* apply_action, betting branch on BET: first_bettor, pot and ante[curr_player].
place_bet(s, curr_player) ==
    [s EXCEPT !.first_bettor = IF s.first_bettor = INVALID_PLAYER
                               THEN curr_player ELSE s.first_bettor,
              !.pot = s.pot + s.bet_size,
              !.ante[PyIndex(curr_player, s.num_players)] =
                    s.ante[PyIndex(curr_player, s.num_players)] + s.bet_size]

\* Mutant of showdown_no_bet: only the top card is looked at, without the
\* fallback to the next card.
showdown_no_bet_top_only(s) ==
    [s EXCEPT !.winner = s.card_dealt[s.num_players]]

\* apply_action, case A: nobody bet, the holder of the top card wins.
showdown_no_bet(s) ==
    IF s.card_dealt[s.num_players] # INVALID_PLAYER
    THEN [s EXCEPT !.winner = s.card_dealt[s.num_players]]
    ELSE [s EXCEPT !.winner = s.card_dealt[s.num_players - 1]]

\* Mutant of showdown_bet: the highest dealt card wins, folded or not.
showdown_bet_ignores_fold(s) ==
    LET eligible == {card \in 0..s.num_players :
                        s.card_dealt[card] # INVALID_PLAYER}
    IN IF eligible = {} THEN s
       ELSE [s EXCEPT !.winner = s.card_dealt[MaxOf(eligible)]]

\* apply_action, case B: scan the cards from the highest down, the first
\* holder that did_bet wins; winner stays as it is when none is found.
showdown_bet(s) ==
    LET eligible == {card \in 0..s.num_players :
                        /\ s.card_dealt[card] # INVALID_PLAYER
                        /\ did_bet(s, s.card_dealt[card])}
    IN IF eligible = {} THEN s
       ELSE [s EXCEPT !.winner = s.card_dealt[MaxOf(eligible)]]

\* Mutant of check_termination: after a bet the round is closed after
\* num_players decisions, without the first_bettor offset.
check_termination_no_offset(s) ==
    LET num_actions == Len(s.history) - s.num_players IN
    IF s.first_bettor = INVALID_PLAYER /\ num_actions = s.num_players
    THEN showdown_no_bet(s)
    ELSE IF s.first_bettor # INVALID_PLAYER
            /\ num_actions = s.num_players
         THEN showdown_bet(s)
         ELSE s

\* Mutant of check_termination: after a bet the game goes on for a whole
\* further round before the showdown.
check_termination_extra_round(s) ==
    LET num_actions == Len(s.history) - s.num_players IN
    IF s.first_bettor = INVALID_PLAYER /\ num_actions = s.num_players
    THEN showdown_no_bet(s)
    ELSE IF s.first_bettor # INVALID_PLAYER
            /\ num_actions = 2 * s.num_players + s.first_bettor
         THEN showdown_bet(s)
         ELSE s

\* apply_action, step 3: the termination check run after the append.
check_termination(s) ==
    LET num_actions == Len(s.history) - s.num_players IN
    IF s.first_bettor = INVALID_PLAYER /\ num_actions = s.num_players
    THEN showdown_no_bet(s)
    ELSE IF s.first_bettor # INVALID_PLAYER
            /\ num_actions = s.num_players + s.first_bettor
         THEN showdown_bet(s)
         ELSE s

\* Mutant of append_history: the new entry replaces the last one once the
\* history is non-empty.
append_history_overwrites_last(s, action) ==
    [s EXCEPT !.history = IF Len(s.history) = 0
                          THEN <<action>>
                          ELSE [s.history EXCEPT ![Len(s.history)] = action]]

append_history(s, action) == [s EXCEPT !.history = Append(s.history, action)]

\* apply_action(action): the new state and the exception raised ("none" when
\* the call returns).  Every raise happens before the first mutation.
apply_action(s, action) ==
    IF s.enable_checks /\ is_terminal(s)
    THEN [state |-> s, raised |-> "RuntimeError"]
    ELSE
    LET curr_player == current_player(s) IN
    IF Len(s.history) < s.num_players
    THEN IF s.enable_checks /\ ~(0 <= action /\ action < s.deck_size)
         THEN [state |-> s, raised |-> "ValueError"]
         ELSE IF s.enable_checks /\ s.card_dealt[action] # INVALID_PLAYER
         THEN [state |-> s, raised |-> "ValueError"]
         ELSE IF ~PyValidIndex(action, s.deck_size)
         THEN [state |-> s, raised |-> "IndexError"]
         ELSE [state  |-> check_termination(append_history(deal_card(s, action), action)),
               raised |-> "none"]
    ELSE IF s.enable_checks /\ action \notin {PASS, BET}
         THEN [state |-> s, raised |-> "ValueError"]
         ELSE [state  |-> check_termination(append_history(
                              IF action = BET THEN place_bet(s, curr_player) ELSE s,
                              action)),
               raised |-> "none"]

\* str(int): the decimal digits, as a sequence of characters.
DigitChar(d) == <<"0", "1", "2", "3", "4", "5", "6", "7", "8", "9">>[d + 1]

RECURSIVE Digits(_)
Digits(k) ==
    IF k < 10 THEN <<DigitChar(k)>>
    ELSE Append(Digits(k \div 10), DigitChar(k % 10))

str(k) == IF k < 0 THEN <<"-">> \o Digits(-k) ELSE Digits(k)

\* the betting sequence of information_state_string: one character for
\* every history entry from index num_players on, "b" for BET, "p" otherwise
RECURSIVE BettingChars(_, _)
BettingChars(s, i) ==
    IF i > Len(s.history) THEN << >>
    ELSE <<IF s.history[i] = BET THEN "b" ELSE "p">> \o BettingChars(s, i + 1)

\* Mutant of information_state_string: the key is the player's card alone,
\* without the betting sequence.
information_state_string_card_only(s, player) ==
    IF player < 0
    THEN [raised |-> "none", value |-> <<"C", "h", "a", "n", "c", "e">>]
    ELSE IF s.enable_checks /\ player >= s.num_players
    THEN [raised |-> "ValueError", value |-> << >>]
    ELSE [raised |-> "none",
          value  |-> (IF Len(s.history) > player
                      THEN str(s.history[player + 1]) ELSE << >>)]

\* Mutant of information_state_string: the card shown is always the first
\* card dealt, not the card of the player asked for.
information_state_string_first_card(s, player) ==
    IF player < 0
    THEN [raised |-> "none", value |-> <<"C", "h", "a", "n", "c", "e">>]
    ELSE IF s.enable_checks /\ player >= s.num_players
    THEN [raised |-> "ValueError", value |-> << >>]
    ELSE [raised |-> "none",
          value  |-> (IF Len(s.history) > 0 THEN str(s.history[1]) ELSE << >>)
                     \o BettingChars(s, s.num_players + 1)]

\* information_state_string(player): a string is a sequence of characters.
\* The caller passes current_player() for the default player=None.
information_state_string(s, player) ==
    IF player < 0
    THEN [raised |-> "none", value |-> <<"C", "h", "a", "n", "c", "e">>]
    ELSE IF s.enable_checks /\ player >= s.num_players
    THEN [raised |-> "ValueError", value |-> << >>]
    ELSE [raised |-> "none",
          value  |-> (IF Len(s.history) > player
                      THEN str(s.history[player + 1]) ELSE << >>)
                     \o BettingChars(s, s.num_players + 1)]

\* Mutant of clone: history is handed over without the slice copy, so both
\* objects hold the same list.
clone_shares_history(s) ==
    [obj    |-> [ num_players   |-> s.num_players,
                  deck_size     |-> s.num_players + 1,
                  bet_size      |-> s.bet_size,
                  enable_checks |-> s.enable_checks,
                  history       |-> s.history,
                  card_dealt    |-> s.card_dealt,
                  first_bettor  |-> s.first_bettor,
                  winner        |-> s.winner,
                  pot           |-> s.pot,
                  ante          |-> s.ante ],
     shared |-> {"history"}]

\* clone(): a new KuhnState of the same config; history, card_dealt and ante
\* are slice copies (new lists), the scalars are assigned.  shared names
\* the list attributes the copy holds in common with s: none.
clone(s) ==
    [obj    |-> [ num_players   |-> s.num_players,
                  deck_size     |-> s.num_players + 1,
                  bet_size      |-> s.bet_size,
                  enable_checks |-> s.enable_checks,
                  history       |-> s.history,
                  card_dealt    |-> s.card_dealt,
                  first_bettor  |-> s.first_bettor,
                  winner        |-> s.winner,
                  pot           |-> s.pot,
                  ante          |-> s.ante ],
     shared |-> {}]

\* What an object sees after the object it shares lists with was mutated in
\* place (history.append, card_dealt[..] = .., ante[..] += ..): the shared
\* lists carry the new contents, everything else is untouched.
SeenThrough(mine, theirs, fields) ==
    [mine EXCEPT !.history    = IF "history" \in fields THEN theirs.history ELSE @,
                 !.card_dealt = IF "card_dealt" \in fields THEN theirs.card_dealt ELSE @,
                 !.ante       = IF "ante" \in fields THEN theirs.ante ELSE @]

\* ------------------------------------------------------------- arithmetic
\* The solver computes in floats; the model computes the same expressions
\* exactly, a number being a fraction <<numerator, denominator>> in lowest
\* terms with a positive denominator.
RECURSIVE GCD(_, _)
GCD(a, b) == IF b = 0 THEN a ELSE GCD(b, a % b)

Abs(n) == IF n < 0 THEN -n ELSE n

Frac(n, d) ==
    LET s == IF d < 0 THEN -1 ELSE 1
        g == GCD(Abs(n), Abs(d))
    IN <<(s * n) \div g, (s * d) \div g>>

RZero == <<0, 1>>
ROne == <<1, 1>>
RAdd(x, y) == Frac(x[1] * y[2] + y[1] * x[2], x[2] * y[2])
RNeg(x) == <<-x[1], x[2]>>
RSub(x, y) == RAdd(x, RNeg(y))
RMul(x, y) == Frac(x[1] * y[1], x[2] * y[2])
RDiv(x, y) == Frac(x[1] * y[2], x[2] * y[1])
RLess(x, y) == x[1] * y[2] < y[1] * x[2]
RLeq(x, y) == x[1] * y[2] <= y[1] * x[2]
RMax(x, y) == IF RLess(x, y) THEN y ELSE x

\* np.sum of a vector
RECURSIVE VecSum(_)
VecSum(v) == IF Len(v) = 0 THEN RZero ELSE RAdd(v[1], VecSum(Tail(v)))

\* np.zeros(n), np.ones(n) / n
Zeros(n) == [i \in 1..n |-> RZero]
Uniform(n) == [i \in 1..n |-> Frac(1, n)]

\* an empty dict
EmptyTable == [k \in {} |-> 0]

\* ----------------------------------------------------------------- CFRNode
\* CFRNode.__init__
CFRNode(num_actions) ==
    [ regret_sum   |-> Zeros(num_actions),
      strategy_sum |-> Zeros(num_actions),
      strategy     |-> Zeros(num_actions) ]

\* Mutant of get_strategy: the regrets are normalised as they are, without
\* taking the positive part first.
get_strategy_raw_regret(node, realization_weight) ==
    LET sum_regret == VecSum(node.regret_sum)
        strategy ==
            IF RLess(RZero, sum_regret)
            THEN [i \in 1..Len(node.regret_sum) |-> RDiv(node.regret_sum[i], sum_regret)]
            ELSE Uniform(Len(node.regret_sum))
    IN [ node |-> [node EXCEPT
                     !.strategy_sum = [i \in 1..Len(strategy) |->
                         RAdd(node.strategy_sum[i], RMul(strategy[i], realization_weight))],
                     !.strategy = strategy],
         strategy |-> strategy ]

\* Mutant of get_strategy: strategy_sum is assigned the weighted strategy
\* instead of being increased by it.
get_strategy_overwrites_sum(node, realization_weight) ==
    LET positive_regret == [i \in 1..Len(node.regret_sum) |->
                               RMax(node.regret_sum[i], RZero)]
        sum_pos_regret == VecSum(positive_regret)
        strategy ==
            IF RLess(RZero, sum_pos_regret)
            THEN [i \in 1..Len(positive_regret) |->
                     RDiv(positive_regret[i], sum_pos_regret)]
            ELSE Uniform(Len(node.regret_sum))
    IN [ node |-> [node EXCEPT
                     !.strategy_sum = [i \in 1..Len(strategy) |->
                         RMul(strategy[i], realization_weight)],
                     !.strategy = strategy],
         strategy |-> strategy ]

\* Mutant of get_strategy: the strategy does not read regret_sum, it is
\* always uniform.
get_strategy_ignores_regret(node, realization_weight) ==
    LET strategy == Uniform(Len(node.regret_sum))
    IN [ node |-> [node EXCEPT
                     !.strategy_sum = [i \in 1..Len(strategy) |->
                         RAdd(node.strategy_sum[i], RMul(strategy[i], realization_weight))],
                     !.strategy = strategy],
         strategy |-> strategy ]

\* CFRNode.get_strategy(realization_weight): regret matching; the node
\* after the call and the vector returned.
get_strategy(node, realization_weight) ==
    LET positive_regret == [i \in 1..Len(node.regret_sum) |->
                               RMax(node.regret_sum[i], RZero)]
        sum_pos_regret == VecSum(positive_regret)
        strategy ==
            IF RLess(RZero, sum_pos_regret)
            THEN [i \in 1..Len(positive_regret) |->
                     RDiv(positive_regret[i], sum_pos_regret)]
            ELSE Uniform(Len(node.regret_sum))
    IN [ node |-> [node EXCEPT
                     !.strategy_sum = [i \in 1..Len(strategy) |->
                         RAdd(node.strategy_sum[i], RMul(strategy[i], realization_weight))],
                     !.strategy = strategy],
         strategy |-> strategy ]

\* Mutant of get_average_strategy: strategy_sum is returned as it is, not
\* divided by its total.
get_average_strategy_unnormalised(node) ==
    IF RLess(RZero, VecSum(node.strategy_sum))
    THEN node.strategy_sum
    ELSE Uniform(Len(node.strategy_sum))

\* CFRNode.get_average_strategy()
get_average_strategy(node) ==
    LET strategy_sum == VecSum(node.strategy_sum) IN
    IF RLess(RZero, strategy_sum)
    THEN [i \in 1..Len(node.strategy_sum) |-> RDiv(node.strategy_sum[i], strategy_sum)]
    ELSE Uniform(Len(node.strategy_sum))

-----------------------------------------------------------------------------
\* gemini/kuhn_poker.py: KuhnState with ante and bet fixed to 1 and no
\* checks.  Its attributes are those of the main KuhnState, so the same
\* record holds them (bet_size, enable_checks and deck_size are not read).

\* KuhnState(num_players)
gemini_new_state(num_players) ==
    new_initial_state([num_players |-> num_players, ante |-> 1,
                       bet_size |-> 1, enable_checks |-> FALSE])

gemini_is_terminal(s) == s.winner # INVALID_PLAYER

gemini_current_player(s) ==
    IF gemini_is_terminal(s) THEN -2
    ELSE IF Len(s.history) < s.num_players THEN -1
    ELSE Len(s.history) % s.num_players

gemini_is_chance_node(s) == gemini_current_player(s) = -1

\* legal_actions(): the undealt cards in increasing order, or [PASS, BET]
gemini_legal_actions(s) ==
    IF gemini_is_terminal(s) THEN << >>
    ELSE IF gemini_is_chance_node(s)
    THEN SortedSeq({card \in DOMAIN s.card_dealt : s.card_dealt[card] = INVALID_PLAYER})
    ELSE <<PASS, BET>>

RECURSIVE gemini_showdown(_, _)
\* for card in range(num_players, -1, -1): the first holder who _did_bet
\* wins; the state after the loop, or the exception _did_bet raised.
gemini_showdown(s, card) ==
    IF card < 0 THEN [state |-> s, raised |-> "none"]
    ELSE LET player == s.card_dealt[card] IN
         IF player = INVALID_PLAYER THEN gemini_showdown(s, card - 1)
         ELSE LET d == gemini_did_bet(s, player) IN
              IF d.raised # "none" THEN [state |-> s, raised |-> d.raised]
              ELSE IF d.value
              THEN [state |-> [s EXCEPT !.winner = player], raised |-> "none"]
              ELSE gemini_showdown(s, card - 1)

\* apply_action, step 3: the termination check after the action was appended
gemini_check_termination(s) ==
    LET num_actions == Len(s.history) - s.num_players IN
    IF s.first_bettor = INVALID_PLAYER /\ num_actions = s.num_players
    THEN [state  |-> IF s.card_dealt[s.num_players] # INVALID_PLAYER
                     THEN [s EXCEPT !.winner = s.card_dealt[s.num_players]]
                     ELSE [s EXCEPT !.winner = s.card_dealt[s.num_players - 1]],
          raised |-> "none"]
    ELSE IF s.first_bettor # INVALID_PLAYER
            /\ num_actions = s.num_players + s.first_bettor
    THEN gemini_showdown(s, s.num_players)
    ELSE [state |-> s, raised |-> "none"]

\* apply_action(action): the state after the call and the exception raised
gemini_apply_action(s, action) ==
    LET curr_player == gemini_current_player(s) IN
    IF Len(s.history) < s.num_players
    THEN IF ~PyValidIndex(action, s.num_players + 1)
         THEN [state |-> s, raised |-> "IndexError"]
         ELSE gemini_check_termination(
                  [s EXCEPT !.card_dealt[PyIndex(action, s.num_players + 1)] = Len(s.history),
                            !.history = Append(s.history, action)])
    ELSE IF action = BET
    THEN gemini_check_termination(
             [s EXCEPT !.first_bettor = IF s.first_bettor = INVALID_PLAYER
                                        THEN curr_player ELSE s.first_bettor,
                       !.pot = s.pot + 1,
                       !.ante[PyIndex(curr_player, s.num_players)] =
                             s.ante[PyIndex(curr_player, s.num_players)] + 1,
                       !.history = Append(s.history, action)])
    ELSE gemini_check_termination([s EXCEPT !.history = Append(s.history, action)])

\* returns(), with the exception a _did_bet lookup raises
gemini_returns_raised(s) ==
    IF ~gemini_is_terminal(s) THEN "none"
    ELSE IF \E p \in 0..(s.num_players - 1) : gemini_did_bet(s, p).raised # "none"
    THEN "IndexError"
    ELSE "none"

\* information_state_string(), of the player to act
gemini_information_state_string(s) ==
    LET player == gemini_current_player(s) IN
    IF player < 0 THEN <<"C", "h", "a", "n", "c", "e">>
    ELSE (IF Len(s.history) > player THEN str(s.history[player + 1]) ELSE << >>)
         \o BettingChars(s, s.num_players + 1)

-----------------------------------------------------------------------------
\* gpt/kuhn_poker.py: KuhnState over a KuhnConfig, always checked.  A missing
\* player is None, and a history entry is HistoryItem(player, action).

\* KuhnState(cfg) with __post_init__
gpt_new_state(cfg) ==
    [ cfg          |-> cfg,
      card_dealt   |-> [card \in 0..cfg.num_players |-> None],
      first_bettor |-> None,
      pot          |-> cfg.ante * cfg.num_players,
      ante_contrib |-> [p \in 0..(cfg.num_players - 1) |-> cfg.ante],
      winner       |-> None,
      history      |-> << >> ]

HistoryItem(player, action) == [player |-> player, action |-> action]

gpt_is_terminal(s) == ~s.winner.none

gpt_is_chance_node(s) == ~gpt_is_terminal(s) /\ Len(s.history) < s.cfg.num_players

gpt_current_player(s) ==
    IF gpt_is_terminal(s) THEN TERMINAL_PLAYER
    ELSE IF gpt_is_chance_node(s) THEN CHANCE_PLAYER
    ELSE Len(s.history) % s.cfg.num_players

gpt_legal_actions(s) ==
    IF gpt_is_terminal(s) THEN << >>
    ELSE IF gpt_is_chance_node(s)
    THEN SortedSeq({c \in DOMAIN s.card_dealt : s.card_dealt[c].none})
    ELSE <<PASS, BET>>

\* did_bet(player): a lookup outside the history answers False
gpt_did_bet(s, player) ==
    LET n == s.cfg.num_players
        fb == s.first_bettor
    IN IF fb.none THEN FALSE
       ELSE IF player = fb.value THEN TRUE
       ELSE LET idx == IF player > fb.value THEN n + player ELSE 2 * n + player IN
            IF idx < 0 \/ idx >= Len(s.history) THEN FALSE
            ELSE s.history[idx + 1].action = BET

RECURSIVE gpt_showdown(_, _)
\* for card in range(n, -1, -1): the first holder who did_bet wins
gpt_showdown(s, card) ==
    IF card < 0 THEN s
    ELSE LET player == s.card_dealt[card] IN
         IF ~player.none /\ gpt_did_bet(s, player.value)
         THEN [s EXCEPT !.winner = player]
         ELSE gpt_showdown(s, card - 1)

\* _maybe_set_terminal()
gpt_maybe_set_terminal(s) ==
    LET n == s.cfg.num_players
        num_actions == Len(s.history) - n
    IN IF num_actions < 0 THEN [state |-> s, raised |-> "none"]
       ELSE IF s.first_bettor.none
       THEN IF num_actions = n
            THEN LET winner == IF s.card_dealt[n].none
                               THEN s.card_dealt[n - 1] ELSE s.card_dealt[n]
                 IN IF winner.none
                    THEN [state |-> s, raised |-> "RuntimeError"]
                    ELSE [state |-> [s EXCEPT !.winner = winner], raised |-> "none"]
            ELSE [state |-> s, raised |-> "none"]
       ELSE IF num_actions = n + s.first_bettor.value
            THEN LET after == gpt_showdown(s, n) IN
                 [state  |-> after,
                  raised |-> IF after.winner.none THEN "RuntimeError" ELSE "none"]
            ELSE [state |-> s, raised |-> "none"]

\* _apply_chance(card)
gpt_apply_chance(s, card) ==
    IF ~(0 <= card /\ card < s.cfg.num_players + 1)
    THEN [state |-> s, raised |-> "ValueError"]
    ELSE IF ~s.card_dealt[card].none
    THEN [state |-> s, raised |-> "ValueError"]
    ELSE [state  |-> [s EXCEPT !.card_dealt[card] = Some(Len(s.history)),
                               !.history = Append(s.history,
                                                  HistoryItem(CHANCE_PLAYER, card))],
          raised |-> "none"]

\* _apply_decision(move)
gpt_apply_decision(s, move) ==
    IF move \notin {PASS, BET}
    THEN [state |-> s, raised |-> "ValueError"]
    ELSE LET p == gpt_current_player(s)
             bet == IF move = BET
                    THEN [s EXCEPT !.first_bettor = IF s.first_bettor.none
                                                   THEN Some(p) ELSE s.first_bettor,
                                   !.pot = s.pot + s.cfg.bet_size,
                                   !.ante_contrib[p] = s.ante_contrib[p] + s.cfg.bet_size]
                    ELSE s
         IN gpt_maybe_set_terminal(
                [bet EXCEPT !.history = Append(bet.history, HistoryItem(p, move))])

\* apply_action(action)
gpt_apply_action(s, action) ==
    IF gpt_is_terminal(s) THEN [state |-> s, raised |-> "RuntimeError"]
    ELSE IF gpt_is_chance_node(s) THEN gpt_apply_chance(s, action)
    ELSE gpt_apply_decision(s, action)

\* returns()
gpt_returns(s) ==
    IF ~gpt_is_terminal(s) THEN [p \in 0..(s.cfg.num_players - 1) |-> 0]
    ELSE [p \in 0..(s.cfg.num_players - 1) |->
            LET bet == IF gpt_did_bet(s, p) THEN 2 ELSE 1 IN
            IF p = s.winner.value THEN s.pot - bet ELSE -bet]

RECURSIVE gpt_betting_chars(_, _)
\* for i in range(n, len(history)): "b" if the action is BET else "p"
gpt_betting_chars(s, i) ==
    IF i > Len(s.history) THEN << >>
    ELSE <<IF s.history[i].action = BET THEN "b" ELSE "p">> \o gpt_betting_chars(s, i + 1)

\* information_state_string(player)
gpt_information_state_string(s, player) ==
    IF ~(0 <= player /\ player < s.cfg.num_players)
    THEN [raised |-> "ValueError", value |-> << >>]
    ELSE [raised |-> "none",
          value  |-> (IF Len(s.history) > player
                      THEN str(s.history[player + 1].action) ELSE << >>)
                     \o gpt_betting_chars(s, s.cfg.num_players + 1)]

\* The two variant objects a constructor of each file builds for the
\* number of players of config.
InitVariants ==
    /\ gemini_state = gemini_new_state(config.num_players)
    /\ gpt_state = gpt_new_state([num_players |-> config.num_players,
                                  ante |-> 1, bet_size |-> 1])

\* ------------------------------------------------------- gemini/app.py
\* The visualizer script.  Streamlit runs the whole script once per
\* user input and once per st.rerun(); st.session_state is the only
\* thing that survives from one run to the next.  session_state is a
\* dict: a function from the keys it holds to their values.
EmptyDict == [k \in {} |-> 0]

Put(d, k, v) == [x \in (DOMAIN d) \cup {k} |-> IF x = k THEN v ELSE d[x]]

SetDefault(d, k, v) == IF k \in DOMAIN d THEN d ELSE Put(d, k, v)

\* run_training_session: the "step" entries of the history it returns,
\* step 0 first and then every step i of 1..iterations with
\* i % interval = 0.  The "data" of an entry is the snapshot the solver
\* gives after that many train_step() calls, so the step stands for it.
run_training_session(iterations, interval) ==
    <<0>> \o SelectSeq([i \in 1..iterations |-> i],
                       LAMBDA i : i % interval = 0)

\* step_to_index.get(value, 0): the 0-based place of value in steps.
step_to_index(steps, value) ==
    IF \E i \in 1..Len(steps) : steps[i] = value
    THEN (CHOOSE i \in 1..Len(steps) : steps[i] = value) - 1
    ELSE 0

\* The widget values of a run in which the user touched nothing; slider
\* is None when the select_slider was not moved and then returns the
\* value it was given, session_state["step_value"].
NoInput ==
    [ total_iterations |-> 0, log_interval |-> 1, start_btn |-> FALSE,
      play_clicked |-> FALSE, pause_clicked |-> FALSE,
      reset_clicked |-> FALSE, slider |-> None ]

\* Sidebar: train when Start / Retrain was clicked or the session has
\* no history yet, and put the view on the last snapshot.
after_training(ss, w) ==
    LET training_triggered == w.start_btn \/ "cfr_history" \notin DOMAIN ss
        hist  == run_training_session(w.total_iterations, w.log_interval)
        last  == IF Len(hist) - 1 > 0 THEN Len(hist) - 1 ELSE 0
        s1    == Put(Put(Put(ss, "cfr_history", hist), "is_playing", FALSE),
                     "selected_step_index", last)
        s2    == Put(s1, "step_value", hist[last + 1])
    IN IF training_triggered THEN s2 ELSE ss

\* "Control logic": the three keys get a value when they have none.
with_defaults(ss) ==
    LET steps == ss["cfr_history"]
        s1 == SetDefault(ss, "is_playing", FALSE)
        s2 == SetDefault(s1, "selected_step_index", Len(steps) - 1)
        s3 == SetDefault(s2, "step_value",
                         steps[s2["selected_step_index"] + 1])
    IN s3

\* The playback state update: the buttons, then the slider, then the
\* advance of a running playback.
playback_update(ss, w) ==
    LET steps == ss["cfr_history"]
        max_step_index == IF Len(steps) - 1 > 0 THEN Len(steps) - 1 ELSE 0
        selected_step_value == IF w.slider.none THEN ss["step_value"]
                               ELSE w.slider.value
        s1 == IF w.play_clicked
              THEN Put(Put(ss, "is_playing", TRUE), "selected_step_index", 0)
              ELSE ss
        s2 == IF w.pause_clicked THEN Put(s1, "is_playing", FALSE) ELSE s1
        s3 == IF w.reset_clicked THEN Put(s2, "selected_step_index", 0) ELSE s2
        s4 == IF selected_step_value # s3["step_value"]
              THEN Put(Put(s3, "step_value", selected_step_value),
                       "selected_step_index",
                       step_to_index(steps, selected_step_value))
              ELSE s3
        next_index == s4["selected_step_index"] + 1
        s5 == IF s4["is_playing"]
              THEN IF next_index > max_step_index
                   THEN Put(Put(s4, "selected_step_index", max_step_index),
                            "is_playing", FALSE)
                   ELSE Put(Put(s4, "selected_step_index", next_index),
                            "step_value", steps[next_index + 1])
              ELSE s4
    IN s5

\* The page before any run of the script.
NoPage ==
    [ rendered |-> FALSE, current_step |-> 0, slider_disabled |-> FALSE,
      should_autoplay |-> FALSE, played |-> << >> ]

\* One run of the script with the widget values w.  played is the list
\* of the selected_step_index values the tree was drawn for by the run
\* of the Play click and by the runs without input that followed it
\* while the playback was on; any other input empties it.
script_run(ss, prev, w) ==
    LET s1 == with_defaults(after_training(ss, w))
        s2 == playback_update(s1, w)
        index == s2["selected_step_index"]
    IN [ session_state |-> s2,
         page |-> [ rendered |-> TRUE,
                    current_step |-> s2["cfr_history"][index + 1],
                    slider_disabled |-> s1["is_playing"],
                    should_autoplay |-> s2["is_playing"],
                    played |-> IF w.play_clicked THEN <<index>>
                               ELSE IF w # NoInput THEN << >>
                               ELSE IF prev.should_autoplay
                                    THEN Append(prev.played, index)
                                    ELSE prev.played ] ]

InitApp ==
    /\ session_state = EmptyDict
    /\ page = NoPage

\* ------------------------------------------------------------------ drivers
\* KuhnConfig: the configurations __post_init__ accepts, within the bounds.
Configs ==
    [ num_players   : 2..MaxPlayers,
      ante          : 1..MaxAnte,
      bet_size      : 1..MaxBet,
      enable_checks : BOOLEAN ]

NoCall == [op |-> "new_initial_state", arg |-> 0]

Init ==
    /\ config \in Configs
    /\ state = new_initial_state(config)
    /\ call = NoCall
    /\ raised = "none"
    /\ outcomes = << >>
    /\ other = new_initial_state(config)
    /\ origin = "new"
    /\ shared = {}
    /\ InitVariants
    /\ InitApp
    /\ nodes = EmptyTable
    /\ stack = << >>
    /\ ret = RZero
    /\ iteration = 0
    /\ visited_keys = {}
    /\ evaluated_terminals = {}
    /\ snapshot = EmptyTable
    /\ snap_shared = {}

\* KuhnPokerGame.new_initial_state(): a fresh state of the same game.
NewInitialState ==
    /\ Len(state.history) > 0
    /\ state' = new_initial_state(config)
    /\ call' = NoCall
    /\ raised' = "none"
    /\ outcomes' = << >>
    /\ shared' = {}
    /\ UNCHANGED <<config, other, origin, variantVars, appVars, cfrVars>>

\* state.apply_action(action) with the result r.
DoApplyAction(action) ==
    LET r == apply_action(state, action) IN
    /\ state' = r.state
    /\ raised' = r.raised
    /\ call' = [op |-> "apply_action", arg |-> action]
    /\ UNCHANGED <<config, outcomes, pairVars, variantVars, appVars, cfrVars>>

\* state.chance_outcomes()
DoChanceOutcomes ==
    LET r == chance_outcomes(state) IN
    /\ outcomes' = r.value
    /\ raised' = r.raised
    /\ call' = [op |-> "chance_outcomes", arg |-> 0]
    /\ UNCHANGED <<config, state, pairVars, variantVars, appVars, cfrVars>>

\* Legal play: the caller takes its actions from legal_actions() and asks
\* for chance_outcomes() at chance nodes only (CFRSolver._cfr).
ApplyLegalAction == \E action \in legal_set(state) : DoApplyAction(action)

LegalChanceOutcomes ==
    /\ is_chance_node(state)
    /\ call.op # "chance_outcomes"
    /\ DoChanceOutcomes

Next == ApplyLegalAction \/ LegalChanceOutcomes \/ NewInitialState

Spec == Init /\ [][Next]_vars

\* Arbitrary caller: any integer action on any state, terminal ones included.
AnyActions == -1..(MaxPlayers + 1)

ApplyAnyAction ==
    /\ Len(state.history) < MaxHist
    /\ \E action \in AnyActions : DoApplyAction(action)

AnyChanceOutcomes ==
    /\ call.op # "chance_outcomes"
    /\ DoChanceOutcomes

NextAny == ApplyAnyAction \/ AnyChanceOutcomes \/ NewInitialState

SpecAny == Init /\ [][NextAny]_vars

\* Two state objects of one game side by side: state and other, each moved
\* by legal actions; other is built on its own or is state.clone().
MaxPairPlayers == 2

InitPair ==
    /\ Init
    /\ config.num_players <= MaxPairPlayers
    /\ config.ante = 1
    /\ config.bet_size = 1
    /\ ~config.enable_checks

\* other = state.clone()
CloneState ==
    LET r == clone(state) IN
    /\ other' = r.obj
    /\ shared' = r.shared
    /\ origin' = "clone"
    /\ call' = [op |-> "clone", arg |-> 0]
    /\ UNCHANGED <<config, state, raised, outcomes, variantVars, appVars, cfrVars>>

\* other = game.new_initial_state()
NewOther ==
    /\ Len(other.history) > 0
    /\ other' = new_initial_state(config)
    /\ shared' = {}
    /\ origin' = "new"
    /\ call' = [op |-> "other = new_initial_state", arg |-> 0]
    /\ UNCHANGED <<config, state, raised, outcomes, variantVars, appVars, cfrVars>>

\* state.apply_action(action), seen from both objects
ApplyToState ==
    \E action \in legal_set(state) :
        LET r == apply_action(state, action) IN
        /\ state' = r.state
        /\ other' = SeenThrough(other, r.state, shared)
        /\ raised' = r.raised
        /\ call' = [op |-> "apply_action", arg |-> 0]
        /\ UNCHANGED <<config, outcomes, origin, shared, variantVars, appVars, cfrVars>>

\* other.apply_action(action), seen from both objects
ApplyToOther ==
    \E action \in legal_set(other) :
        LET r == apply_action(other, action) IN
        /\ other' = r.state
        /\ state' = SeenThrough(state, r.state, shared)
        /\ raised' = r.raised
        /\ call' = [op |-> "other.apply_action", arg |-> 0]
        /\ UNCHANGED <<config, outcomes, origin, shared, variantVars, appVars, cfrVars>>

NextPair == CloneState \/ NewOther \/ ApplyToState \/ ApplyToOther \/ NewInitialState

SpecPair == InitPair /\ [][NextPair]_vars

\* ------------------------------------------------------ one CFRNode alone
\* A single two-action node whose regret_sum is any pair of fractions within
\* the bounds, on which get_strategy is called with any weight in Weights.
MaxRegret == 2
MaxCalls == 2

RegretValues == {Frac(n, d) : n \in (-MaxRegret)..MaxRegret, d \in 1..2}
Weights == {RZero, Frac(1, 2), ROne}
NodeKey == <<"0">>

\* KuhnConfig(): the configuration CFRSolver plays.
DefaultConfig ==
    [num_players |-> 2, ante |-> 1, bet_size |-> 1, enable_checks |-> FALSE]

InitNode ==
    /\ config = DefaultConfig
    /\ state = new_initial_state(config)
    /\ call = NoCall
    /\ raised = "none"
    /\ outcomes = << >>
    /\ other = new_initial_state(config)
    /\ origin = "new"
    /\ shared = {}
    /\ InitVariants
    /\ InitApp
    /\ \E r0 \in RegretValues, r1 \in RegretValues :
          nodes = (NodeKey :> [CFRNode(2) EXCEPT !.regret_sum = <<r0, r1>>])
    /\ stack = << >>
    /\ ret = << >>
    /\ iteration = 0
    /\ visited_keys = {}
    /\ evaluated_terminals = {}
    /\ snapshot = EmptyTable
    /\ snap_shared = {}

\* ret = nodes[NodeKey].get_strategy(realization_weight)
CallGetStrategy ==
    \E realization_weight \in Weights :
        LET r == get_strategy(nodes[NodeKey], realization_weight) IN
        /\ RLess(VecSum(nodes[NodeKey].strategy_sum), <<MaxCalls, 1>>)
        /\ nodes' = [nodes EXCEPT ![NodeKey] = r.node]
        /\ ret' = r.strategy
        /\ call' = [op |-> "get_strategy", arg |-> realization_weight]
        /\ UNCHANGED <<config, state, raised, outcomes, pairVars, variantVars, appVars, stack, iteration,
                       visited_keys, evaluated_terminals, snapshot, snap_shared>>

NextNode == CallGetStrategy

SpecNode == InitNode /\ [][NextNode]_vars

\* --------------------------------------------------------------- CFRSolver
\* CFRSolver._cfr is recursive; the model keeps its active calls in stack.
\* A frame holds the arguments and locals of one call and pc, the place the
\* call has reached: "call" (entered), "chance" / "decision" (in the loop
\* over the children, i the next one), "return" (value is being returned).
MaxSteps == 2

Frame(s, p0, p1) ==
    [ state |-> s, p0 |-> p0, p1 |-> p1, pc |-> "call",
      strategy |-> << >>, expected_util |-> RZero, i |-> 0,
      info_set |-> << >>, util |-> << >>, node_util |-> RZero,
      value |-> RZero ]

Top == stack[Len(stack)]
SetTop(f) == [stack EXCEPT ![Len(stack)] = f]
InCfr == [op |-> "_cfr", arg |-> 0]

\* [Action.PASS, Action.BET], the actions _cfr tries at a decision node
decision_actions_pass_only == <<PASS>>

decision_actions == <<PASS, BET>>

\* next_state = state.clone(); next_state.apply_action(action)
next_state(s, action) == apply_action(clone(s).obj, action).state

\* Mutant of state_after_child: apply_action is called on the state itself,
\* not on a clone.
state_after_child_no_clone(s, action) == apply_action(s, action).state

\* The state _cfr was given, after next_state = state.clone();
\* next_state.apply_action(action): the lists the clone holds in common with
\* it (none) show the mutation, everything else is untouched.
state_after_child(s, action) ==
    SeenThrough(s, next_state(s, action), clone(s).shared)

\* CFRSolver._get_node(info_set, num_actions): the table after the call
get_node(table, info_set, num_actions) ==
    IF info_set \in DOMAIN table THEN table
    ELSE (info_set :> CFRNode(num_actions)) @@ table

\* CFRSolver.__init__
InitCFR ==
    /\ config = DefaultConfig
    /\ state = new_initial_state(config)
    /\ call = NoCall
    /\ raised = "none"
    /\ outcomes = << >>
    /\ other = new_initial_state(config)
    /\ origin = "new"
    /\ shared = {}
    /\ InitVariants
    /\ InitApp
    /\ nodes = EmptyTable
    /\ stack = << >>
    /\ ret = RZero
    /\ iteration = 0
    /\ visited_keys = {}
    /\ evaluated_terminals = {}
    /\ snapshot = EmptyTable
    /\ snap_shared = {}

\* train_step(): the root call self._cfr(state, 1.0, 1.0) is entered.
TrainStep ==
    /\ stack = << >>
    /\ iteration < MaxSteps
    /\ stack' = <<Frame(new_initial_state(config), ROne, ROne)>>
    /\ visited_keys' = {}
    /\ evaluated_terminals' = {}
    /\ call' = [op |-> "train_step", arg |-> 0]
    /\ UNCHANGED <<config, state, raised, outcomes, pairVars, variantVars, appVars, nodes, ret,
                   iteration, snapshot, snap_shared>>

\* if state.is_terminal(): return state.returns()[0]
CfrTerminal ==
    /\ stack # << >>
    /\ Top.pc = "call"
    /\ is_terminal(Top.state)
    /\ stack' = SetTop([Top EXCEPT !.pc = "return",
                                   !.value = <<returns(Top.state)[0], 1>>])
    /\ evaluated_terminals' = evaluated_terminals \cup {Top.state.history}
    /\ call' = InCfr
    /\ UNCHANGED <<config, state, raised, outcomes, pairVars, variantVars, appVars, nodes, ret,
                   iteration, visited_keys, snapshot, snap_shared>>

\* if state.is_chance_node(): strategy = state.chance_outcomes(); expected_util = 0
CfrChance ==
    /\ stack # << >>
    /\ Top.pc = "call"
    /\ ~is_terminal(Top.state)
    /\ is_chance_node(Top.state)
    /\ stack' = SetTop([Top EXCEPT !.pc = "chance",
                                   !.strategy = chance_outcomes(Top.state).value,
                                   !.expected_util = RZero,
                                   !.i = 1])
    /\ call' = InCfr
    /\ UNCHANGED <<config, state, raised, outcomes, pairVars, variantVars, appVars, nodes, ret, iteration,
                   visited_keys, evaluated_terminals, snapshot, snap_shared>>

\* realization_weight = p0 if state.current_player() == 0 else p1
realization_weight(frame) ==
    IF current_player(frame.state) = 0 THEN frame.p0 ELSE frame.p1

\* Mutant of chance_child: the chance probability is multiplied into both
\* reach probabilities.
chance_child_weighs_reach(frame) ==
    Frame(next_state(frame.state, frame.strategy[frame.i][1]),
          RMul(frame.p0, frame.strategy[frame.i][2]),
          RMul(frame.p1, frame.strategy[frame.i][2]))

\* next_state = state.clone(); next_state.apply_action(action);
\* self._cfr(next_state, p0, p1): the call a chance node makes on its i-th outcome
chance_child(frame) ==
    Frame(next_state(frame.state, frame.strategy[frame.i][1]), frame.p0, frame.p1)

\* Mutant of returned_utility: the node utility is returned in the mover's frame.
returned_utility_mover_frame(frame) == frame.node_util

\* return node_util if state.current_player() == 0 else -node_util
returned_utility(frame) ==
    IF current_player(frame.state) = 0 THEN frame.node_util ELSE RNeg(frame.node_util)

\* Mutant of opponent_reach_prob: the mover's own reach weighs the regret.
opponent_reach_prob_own(frame) ==
    IF current_player(frame.state) = 0 THEN frame.p0 ELSE frame.p1

\* (p1 if state.current_player() == 0 else p0), the weight of the regret
opponent_reach_prob(frame) ==
    IF current_player(frame.state) = 0 THEN frame.p1 ELSE frame.p0

\* A decision node is entered: the node is looked up or created and
\* get_strategy adds the weighted strategy to strategy_sum in place and
\* binds node.strategy to a new vector, which a snapshot that held the old
\* one no longer follows.
CfrDecision ==
    /\ stack # << >>
    /\ Top.pc = "call"
    /\ ~is_terminal(Top.state)
    /\ ~is_chance_node(Top.state)
    /\ LET info_set == information_state_string(Top.state, current_player(Top.state)).value
           table == get_node(nodes, info_set, 2)
           r == get_strategy(table[info_set], realization_weight(Top))
       IN /\ nodes' = [table EXCEPT ![info_set] = r.node]
          /\ stack' = SetTop([Top EXCEPT !.pc = "decision",
                                         !.info_set = info_set,
                                         !.strategy = r.strategy,
                                         !.util = Zeros(2),
                                         !.node_util = RZero,
                                         !.i = 1])
          /\ visited_keys' = visited_keys \cup {info_set}
          /\ snap_shared' = snap_shared \ {<<info_set, "current_strategy">>}
    /\ call' = InCfr
    /\ UNCHANGED <<config, state, raised, outcomes, pairVars, variantVars, appVars, ret, iteration,
                   evaluated_terminals, snapshot>>

\* for action, prob in strategy: the call on the next child is entered
ChanceChild ==
    /\ stack # << >>
    /\ Top.pc = "chance"
    /\ Top.i <= Len(Top.strategy)
    /\ stack' = Append(SetTop([Top EXCEPT !.state =
                                   state_after_child(Top.state, Top.strategy[Top.i][1])]),
                        chance_child(Top))
    /\ call' = InCfr
    /\ UNCHANGED <<config, state, raised, outcomes, pairVars, variantVars, appVars, nodes, ret, iteration,
                   visited_keys, evaluated_terminals, snapshot, snap_shared>>

\* for i, action in enumerate([PASS, BET]): the call on the next child is
\* entered, the mover's reach probability multiplied by strategy[i]
DecisionChild ==
    /\ stack # << >>
    /\ Top.pc = "decision"
    /\ Top.i <= Len(decision_actions)
    /\ LET action == decision_actions[Top.i]
           child == next_state(Top.state, action)
           caller == [Top EXCEPT !.state = state_after_child(Top.state, action)]
       IN stack' = Append(SetTop(caller),
              IF current_player(Top.state) = 0
              THEN Frame(child, RMul(Top.p0, Top.strategy[Top.i]), Top.p1)
              ELSE Frame(child, Top.p0, RMul(Top.p1, Top.strategy[Top.i])))
    /\ call' = InCfr
    /\ UNCHANGED <<config, state, raised, outcomes, pairVars, variantVars, appVars, nodes, ret, iteration,
                   visited_keys, evaluated_terminals, snapshot, snap_shared>>

\* the root call returns and train_step() ends
ReturnToTrainStep ==
    /\ Len(stack) = 1
    /\ Top.pc = "return"
    /\ stack' = << >>
    /\ ret' = Top.value
    /\ iteration' = iteration + 1
    /\ call' = InCfr
    /\ UNCHANGED <<config, state, raised, outcomes, pairVars, variantVars, appVars, nodes,
                   visited_keys, evaluated_terminals, snapshot, snap_shared>>

\* expected_util += prob * self._cfr(next_state, p0, p1)
ReturnToChance ==
    /\ Len(stack) > 1
    /\ Top.pc = "return"
    /\ stack[Len(stack) - 1].pc = "chance"
    /\ LET caller == stack[Len(stack) - 1]
           prob == caller.strategy[caller.i][2]
       IN stack' = [SubSeq(stack, 1, Len(stack) - 1) EXCEPT ![Len(stack) - 1] =
              [caller EXCEPT !.expected_util = RAdd(caller.expected_util,
                                                    RMul(prob, Top.value)),
                             !.i = caller.i + 1]]
    /\ call' = InCfr
    /\ UNCHANGED <<config, state, raised, outcomes, pairVars, variantVars, appVars, nodes, ret, iteration,
                   visited_keys, evaluated_terminals, snapshot, snap_shared>>

\* util[i] = (-)self._cfr(...); node_util += strategy[i] * util[i]
ReturnToDecision ==
    /\ Len(stack) > 1
    /\ Top.pc = "return"
    /\ stack[Len(stack) - 1].pc = "decision"
    /\ LET caller == stack[Len(stack) - 1]
           u == IF current_player(caller.state) = 0 THEN Top.value ELSE RNeg(Top.value)
       IN stack' = [SubSeq(stack, 1, Len(stack) - 1) EXCEPT ![Len(stack) - 1] =
              [caller EXCEPT !.util[caller.i] = u,
                             !.node_util = RAdd(caller.node_util,
                                                RMul(caller.strategy[caller.i], u)),
                             !.i = caller.i + 1]]
    /\ call' = InCfr
    /\ UNCHANGED <<config, state, raised, outcomes, pairVars, variantVars, appVars, nodes, ret, iteration,
                   visited_keys, evaluated_terminals, snapshot, snap_shared>>

\* return expected_util
ChanceDone ==
    /\ stack # << >>
    /\ Top.pc = "chance"
    /\ Top.i > Len(Top.strategy)
    /\ stack' = SetTop([Top EXCEPT !.pc = "return", !.value = Top.expected_util])
    /\ call' = InCfr
    /\ UNCHANGED <<config, state, raised, outcomes, pairVars, variantVars, appVars, nodes, ret, iteration,
                   visited_keys, evaluated_terminals, snapshot, snap_shared>>

\* for i in range(2): node.regret_sum[i] += (util[i] - node_util) * (the
\* opponent's reach probability), in place, so a snapshot vector that is the
\* same array shows the new values; then return (-)node_util.
UpdateRegret ==
    /\ stack # << >>
    /\ Top.pc = "decision"
    /\ Top.i > Len(decision_actions)
    /\ LET mover == current_player(Top.state)
           weight == opponent_reach_prob(Top)
           regret_sum == [j \in 1..2 |->
               RAdd(nodes[Top.info_set].regret_sum[j],
                    RMul(RSub(Top.util[j], Top.node_util), weight))]
       IN /\ nodes' = [nodes EXCEPT ![Top.info_set].regret_sum = regret_sum]
          /\ snapshot' = IF <<Top.info_set, "regret">> \in snap_shared
                         THEN [snapshot EXCEPT ![Top.info_set].regret = regret_sum]
                         ELSE snapshot
          /\ stack' = SetTop([Top EXCEPT !.pc = "return",
                                         !.value = returned_utility(Top)])
    /\ call' = InCfr
    /\ UNCHANGED <<config, state, raised, outcomes, pairVars, variantVars, appVars, ret, iteration,
                   visited_keys, evaluated_terminals, snap_shared>>

NextCFR ==
    \/ TrainStep \/ CfrTerminal \/ CfrChance \/ CfrDecision
    \/ ChanceChild \/ DecisionChild
    \/ ReturnToTrainStep \/ ReturnToChance \/ ReturnToDecision
    \/ ChanceDone \/ UpdateRegret

SpecCFR == InitCFR /\ [][NextCFR]_vars

-----------------------------------------------------------------------------
\* The three game implementations driven side by side: kuhn_poker.py,
\* gemini/kuhn_poker.py and gpt/kuhn_poker.py, with ante 1 and bet size 1,
\* on the same legal actions from the initial state.

FirstRaised(exceptions) ==
    IF \A i \in 1..Len(exceptions) : exceptions[i] = "none" THEN "none"
    ELSE exceptions[CHOOSE i \in 1..Len(exceptions) :
                        /\ exceptions[i] # "none"
                        /\ \A j \in 1..(i - 1) : exceptions[j] = "none"]

InitThree ==
    /\ Init
    /\ config.ante = 1
    /\ config.bet_size = 1

\* apply_action(action) on each of the three objects, for an action of
\* legal_actions(); raised is the first exception any of them raised.
ApplyToAllThree ==
    \E action \in legal_set(state) :
        LET r == apply_action(state, action)
            g == gemini_apply_action(gemini_state, action)
            o == gpt_apply_action(gpt_state, action)
        IN /\ state' = r.state
           /\ gemini_state' = g.state
           /\ gpt_state' = o.state
           /\ raised' = FirstRaised(<<r.raised, g.raised, o.raised>>)
           /\ call' = [op |-> "apply_action", arg |-> action]
           /\ UNCHANGED <<config, outcomes, pairVars, appVars, cfrVars>>

NextThree == ApplyToAllThree

SpecThree == InitThree /\ [][NextThree]_vars

-----------------------------------------------------------------------------
\* kuhn_cfr_flow.py: the trainer that keeps the deal as a list of two cards
\* and the betting as a string over "p" and "b".

\* KuhnCFRTrainer.get_terminal_utility(cards, history, player)
get_terminal_utility(cards, history, player) ==
    LET plays == Len(history)
        opponent == 1 - player
    IN IF plays >= 2
       THEN LET is_player_card_higher == cards[player] > cards[opponent] IN
            IF history = <<"p", "p">>
            THEN Some(IF is_player_card_higher THEN 1 ELSE -1)
            ELSE IF history \in {<<"p", "b", "b">>, <<"b", "b">>}
            THEN Some(IF is_player_card_higher THEN 2 ELSE -2)
            ELSE IF history = <<"p", "b", "p">>
            THEN Some(1)
            ELSE IF history = <<"b", "p">>
            THEN Some(1)
            ELSE None
       ELSE None

\* The longest betting string tried.
MaxBettingLen == 3

\* Every string over "p" and "b" of length 0..n.
BettingStrings(n) ==
    UNION {[1..k -> {"p", "b"}] : k \in 0..n}

\* cards = random.sample(CARDS, 2): player 0's and player 1's card
Deals == {cards \in [0..1 -> 0..2] : cards[0] # cards[1]}

\* The deal and the betting string to be played on a KuhnState of the
\* 2-player game, with checks off (the default) and on; pos counts the
\* entries played.
InitFlow ==
    /\ config \in {DefaultConfig, [DefaultConfig EXCEPT !.enable_checks = TRUE]}
    /\ state = new_initial_state(config)
    /\ call = NoCall
    /\ raised = "none"
    /\ outcomes = << >>
    /\ other = new_initial_state(config)
    /\ origin = "new"
    /\ shared = {}
    /\ InitVariants
    /\ InitApp
    /\ nodes = EmptyTable
    /\ stack = << >>
    /\ iteration = 0
    /\ visited_keys = {}
    /\ evaluated_terminals = {}
    /\ snapshot = EmptyTable
    /\ snap_shared = {}
    /\ \E cards \in Deals, history \in BettingStrings(MaxBettingLen) :
          ret = [cards |-> cards, history |-> history, pos |-> 0]

\* state.apply_action(card) for the next card of the deal
FlowDeal ==
    /\ call.op \in {NoCall.op, "deal"}
    /\ ret.pos < 2
    /\ LET r == apply_action(state, ret.cards[ret.pos]) IN
          /\ state' = r.state
          /\ raised' = r.raised
    /\ ret' = [ret EXCEPT !.pos = @ + 1]
    /\ call' = [op |-> "deal", arg |-> 0]
    /\ UNCHANGED <<config, outcomes, pairVars, variantVars, appVars, nodes, stack, iteration, visited_keys,
                   evaluated_terminals, snapshot, snap_shared>>

\* state.apply_action(PASS or BET) for the next character of the string;
\* an exception ends the play.
FlowBet ==
    /\ call.op \in {"deal", "bet"}
    /\ raised = "none"
    /\ ret.pos >= 2
    /\ ret.pos - 2 < Len(ret.history)
    /\ LET action == IF ret.history[ret.pos - 1] = "b" THEN BET ELSE PASS
           r == apply_action(state, action)
       IN /\ state' = r.state
          /\ raised' = r.raised
    /\ ret' = [ret EXCEPT !.pos = @ + 1]
    /\ call' = [op |-> "bet", arg |-> 0]
    /\ UNCHANGED <<config, outcomes, pairVars, variantVars, appVars, nodes, stack, iteration, visited_keys,
                   evaluated_terminals, snapshot, snap_shared>>

\* self.get_terminal_utility(cards, history, len(history) % 2), once the
\* whole string has been played on the state
FlowTerminalUtility ==
    /\ call.op \in {"deal", "bet"}
    /\ raised = "none"
    /\ ret.pos = 2 + Len(ret.history)
    /\ call' = [op  |-> "get_terminal_utility",
                arg |-> get_terminal_utility(ret.cards, ret.history,
                                             Len(ret.history) % 2)]
    /\ UNCHANGED <<config, state, raised, outcomes, pairVars, variantVars, appVars, cfrVars>>

NextFlow == FlowDeal \/ FlowBet \/ FlowTerminalUtility

SpecFlow == InitFlow /\ [][NextFlow]_vars

-----------------------------------------------------------------------------
\* Branch evaluations in another order.  The loop of _cfr over
\* state.chance_outcomes() evaluates the subtrees of the deals one after the
\* other in the order of the list; here the root call of the first
\* train_step takes the same outcomes in any order, which is what evaluating
\* the branches of the first deal as separate tasks, one at a time, can do.

\* The orders in which the entries of a list can be taken.
Orders(list) ==
    {[i \in 1..Len(list) |-> list[f[i]]] : f \in Permutations(1..Len(list))}

CfrChanceAnyOrder ==
    /\ Len(stack) = 1
    /\ iteration = 0
    /\ Top.pc = "call"
    /\ ~is_terminal(Top.state)
    /\ is_chance_node(Top.state)
    /\ \E order \in Orders(chance_outcomes(Top.state).value) :
          stack' = SetTop([Top EXCEPT !.pc = "chance",
                                      !.strategy = order,
                                      !.expected_util = RZero,
                                      !.i = 1])
    /\ call' = [op |-> "_cfr, branches reordered", arg |-> 0]
    /\ UNCHANGED <<config, state, raised, outcomes, pairVars, variantVars, appVars, nodes, ret, iteration,
                   visited_keys, evaluated_terminals, snapshot, snap_shared>>

NextOrder == NextCFR \/ CfrChanceAnyOrder

SpecOrder == InitCFR /\ [][NextOrder]_vars

\* ----------------------------------------- gemini/app.py: the session
\* The visualizer session: every action is one run of the script.
MaxIterations == 5

MaxInterval == 2

InitPlayback == Init /\ config = DefaultConfig

Run(w) ==
    LET r == script_run(session_state, page, w)
    IN /\ session_state' = r.session_state
       /\ page' = r.page
       /\ UNCHANGED <<config, state, call, raised, outcomes, pairVars,
                      variantVars, cfrVars>>

\* The first run of a session: no "cfr_history" yet, so it trains with
\* the values of the two number inputs.
FirstRun ==
    /\ "cfr_history" \notin DOMAIN session_state
    /\ \E iterations \in 0..MaxIterations, interval \in 1..MaxInterval :
         Run([NoInput EXCEPT !.total_iterations = iterations,
                             !.log_interval = interval])

StartRetrain ==
    /\ page.rendered
    /\ \E iterations \in 0..MaxIterations, interval \in 1..MaxInterval :
         Run([NoInput EXCEPT !.total_iterations = iterations,
                             !.log_interval = interval,
                             !.start_btn = TRUE])

PlayClicked ==
    /\ page.rendered
    /\ Run([NoInput EXCEPT !.play_clicked = TRUE])

PauseClicked ==
    /\ page.rendered
    /\ Run([NoInput EXCEPT !.pause_clicked = TRUE])

ResetClicked ==
    /\ page.rendered
    /\ Run([NoInput EXCEPT !.reset_clicked = TRUE])

\* The select_slider is drawn disabled while is_playing; the user picks
\* one of its options, another one than it shows.
SliderMoved ==
    /\ page.rendered
    /\ ~page.slider_disabled
    /\ \E i \in 1..Len(session_state["cfr_history"]) :
         /\ session_state["cfr_history"][i] # session_state["step_value"]
         /\ Run([NoInput EXCEPT
                   !.slider = Some(session_state["cfr_history"][i])])

\* if should_autoplay: time.sleep(...); trigger_rerun()
AutoplayRerun ==
    /\ page.rendered
    /\ page.should_autoplay
    /\ Run(NoInput)

\* A run caused by a widget the playback does not read (the Show Payoff
\* checkbox, a number input) while no playback is on.
OtherWidgetRerun ==
    /\ page.rendered
    /\ ~page.should_autoplay
    /\ Run(NoInput)

NextPlayback ==
    \/ FirstRun
    \/ StartRetrain
    \/ PlayClicked
    \/ PauseClicked
    \/ ResetClicked
    \/ SliderMoved
    \/ AutoplayRerun
    \/ OtherWidgetRerun

SpecPlayback == InitPlayback /\ [][NextPlayback]_vars

\* The script reruns itself whenever it ends with should_autoplay set.
SpecPlaybackFair == SpecPlayback /\ WF_vars(AutoplayRerun)

\* ---------------------------------------------------------- get_snapshot
\* ndarray.copy(): a new array with the same entries
copy(v) == [i \in 1..Len(v) |-> v[i]]

SnapshotFields == {"avg_strategy", "regret", "current_strategy"}

\* Mutant of get_snapshot: regret and current_strategy are stored without
\* .copy(), so the snapshot holds the node's own arrays.
get_snapshot_no_copy(table) ==
    [ data   |-> [info_set \in DOMAIN table |->
                    [ avg_strategy     |-> get_average_strategy(table[info_set]),
                      regret           |-> table[info_set].regret_sum,
                      current_strategy |-> table[info_set].strategy ]],
      shared |-> (DOMAIN table) \X {"regret", "current_strategy"} ]

\* CFRSolver.get_snapshot(): the dict returned, and the <<key, field>> of
\* its vectors that are the same array as the node's.
get_snapshot(table) ==
    [ data   |-> [info_set \in DOMAIN table |->
                    [ avg_strategy     |-> copy(get_average_strategy(table[info_set])),
                      regret           |-> copy(table[info_set].regret_sum),
                      current_strategy |-> copy(table[info_set].strategy) ]],
      shared |-> {} ]

\* snapshot = solver.get_snapshot(), between two train steps
GetSnapshot ==
    /\ stack = << >>
    /\ LET r == get_snapshot(nodes) IN
          /\ snapshot' = r.data
          /\ snap_shared' = r.shared
    /\ call' = [op |-> "get_snapshot", arg |-> 0]
    /\ UNCHANGED <<config, state, raised, outcomes, pairVars, variantVars, appVars, nodes, stack, ret,
                   iteration, visited_keys, evaluated_terminals>>

\* The holder of the snapshot just taken overwrites one entry of one of its
\* vectors: snapshot[info_set][field][i] += 1.  A vector that is the node's
\* own array changes in the node as well.
ModifySnapshot ==
    /\ call.op = "get_snapshot"
    /\ \E info_set \in DOMAIN snapshot, field \in SnapshotFields, i \in 1..2 :
          LET v == RAdd(snapshot[info_set][field][i], ROne) IN
          /\ snapshot' = [snapshot EXCEPT ![info_set][field][i] = v]
          /\ nodes' = IF <<info_set, field>> \notin snap_shared THEN nodes
                      ELSE IF field = "regret"
                      THEN [nodes EXCEPT ![info_set].regret_sum[i] = v]
                      ELSE [nodes EXCEPT ![info_set].strategy[i] = v]
          /\ call' = [op |-> "modify_snapshot", arg |-> <<info_set, field, i>>]
    /\ UNCHANGED <<config, state, raised, outcomes, pairVars, variantVars, appVars, stack, ret, iteration,
                   visited_keys, evaluated_terminals, snap_shared>>

NextSnapshot == NextCFR \/ GetSnapshot \/ ModifySnapshot

SpecSnapshot == InitCFR /\ [][NextSnapshot]_vars

\* ------------------------------------------------------ snapshot readers
\* The information sets of the 2-player game, which the readers ask for.
InfoSetKeys ==
    {<<c>> \o h : c \in {"0", "1", "2"}, h \in {<< >>, <<"p">>, <<"b">>, <<"p", "b">>}}

\* gemini/app.py get_strat(infoset): the average strategy shown for a node
get_strat(current_snapshot, infoset) ==
    IF infoset \in DOMAIN current_snapshot
    THEN current_snapshot[infoset].avg_strategy
    ELSE <<RZero, RZero>>

\* _log_snapshot, one pass of its loop: the key is reported missing, or its
\* avg_strategy is taken for the log line
log_snapshot_entry(current_snapshot, info_set) ==
    IF info_set \notin DOMAIN current_snapshot
    THEN [missing |-> TRUE, avg_strategy |-> << >>]
    ELSE [missing |-> FALSE, avg_strategy |-> current_snapshot[info_set].avg_strategy]

\* ret = get_strat(infoset) on the snapshot held
ReadGetStrat ==
    /\ stack = << >>
    /\ call.op = "get_snapshot"
    /\ \E infoset \in InfoSetKeys :
          /\ ret' = get_strat(snapshot, infoset)
          /\ call' = [op |-> "get_strat", arg |-> infoset]
    /\ UNCHANGED <<config, state, raised, outcomes, pairVars, variantVars, appVars, nodes, stack, iteration,
                   visited_keys, evaluated_terminals, snapshot, snap_shared>>

\* _log_snapshot(step, snapshot, focus = [info_set], ...) on the snapshot held
ReadLogSnapshot ==
    /\ stack = << >>
    /\ call.op = "get_snapshot"
    /\ \E info_set \in InfoSetKeys :
          /\ ret' = log_snapshot_entry(snapshot, info_set)
          /\ call' = [op |-> "_log_snapshot", arg |-> info_set]
    /\ UNCHANGED <<config, state, raised, outcomes, pairVars, variantVars, appVars, nodes, stack, iteration,
                   visited_keys, evaluated_terminals, snapshot, snap_shared>>

NextReaders == NextCFR \/ GetSnapshot \/ ReadGetStrat \/ ReadLogSnapshot

SpecReaders == InitCFR /\ [][NextReaders]_vars

\* -------------------------------------------------------- constructors
\* The entry points that build a configuration, a game or a state, called
\* with any arguments; each gives the exception raised ("none" if none) and
\* the object built.
Raise(exception) == [raised |-> exception, value |-> << >>]

\* KuhnConfig(num_players, ante, bet_size, enable_checks) with __post_init__
KuhnConfig(num_players, ante, bet_size, enable_checks) ==
    IF num_players < 2 THEN Raise("ValueError")
    ELSE IF ante <= 0 \/ bet_size <= 0 THEN Raise("ValueError")
    ELSE [raised |-> "none",
          value  |-> [num_players |-> num_players, ante |-> ante,
                      bet_size |-> bet_size, enable_checks |-> enable_checks]]

\* KuhnState(num_players, ante=.., bet_size=.., enable_checks=..)
KuhnState(num_players, ante, bet_size, enable_checks) ==
    LET c == KuhnConfig(num_players, ante, bet_size, enable_checks) IN
    IF c.raised # "none" THEN c
    ELSE [raised |-> "none", value |-> new_initial_state(c.value)]

\* KuhnPokerGame(num_players, ante=.., bet_size=.., enable_checks=..)
\* followed by new_initial_state()
KuhnPokerGame(num_players, ante, bet_size, enable_checks) ==
    LET c == KuhnConfig(num_players, ante, bet_size, enable_checks) IN
    IF c.raised # "none" THEN c
    ELSE [raised |-> "none", value |-> new_initial_state(c.value)]

\* gemini/kuhn_poker.py: KuhnState(num_players); ante and bet are fixed to 1
\* and nothing is validated.
gemini_KuhnState(num_players) ==
    [raised |-> "none",
     value  |-> gemini_new_state(num_players)]

\* gemini/kuhn_poker.py: KuhnPokerGame(num_players).new_initial_state()
gemini_KuhnPokerGame(num_players) == gemini_KuhnState(num_players)

\* gpt/kuhn_poker.py: KuhnConfig(num_players, ante, bet_size) with
\* __post_init__
gpt_KuhnConfig(num_players, ante, bet_size) ==
    IF ~(2 <= num_players /\ num_players <= 10) THEN Raise("ValueError")
    ELSE IF ante # 1 \/ bet_size # 1 THEN Raise("ValueError")
    ELSE [raised |-> "none",
          value  |-> [num_players |-> num_players, ante |-> ante, bet_size |-> bet_size]]

\* The arguments a caller may pass, valid or not.
AnyConfigs ==
    [ num_players   : (-1)..MaxPlayers,
      ante          : (-1)..MaxAnte,
      bet_size      : (-1)..MaxBet,
      enable_checks : BOOLEAN ]

InitConstruct ==
    /\ config \in AnyConfigs
    /\ state = new_initial_state(DefaultConfig)
    /\ call = NoCall
    /\ raised = "none"
    /\ outcomes = << >>
    /\ other = new_initial_state(DefaultConfig)
    /\ origin = "new"
    /\ shared = {}
    /\ InitVariants
    /\ InitApp
    /\ nodes = EmptyTable
    /\ stack = << >>
    /\ ret = Raise("none")
    /\ iteration = 0
    /\ visited_keys = {}
    /\ evaluated_terminals = {}
    /\ snapshot = EmptyTable
    /\ snap_shared = {}

BuildKuhnConfig ==
    /\ call' = [op |-> "KuhnConfig", arg |-> 0]
    /\ ret' = KuhnConfig(config.num_players, config.ante, config.bet_size,
                       config.enable_checks)
    /\ UNCHANGED <<config, state, raised, outcomes, pairVars, variantVars, appVars, nodes, stack, iteration,
                   visited_keys, evaluated_terminals, snapshot, snap_shared>>

BuildKuhnState ==
    /\ call' = [op |-> "KuhnState", arg |-> 0]
    /\ ret' = KuhnState(config.num_players, config.ante, config.bet_size,
                      config.enable_checks)
    /\ UNCHANGED <<config, state, raised, outcomes, pairVars, variantVars, appVars, nodes, stack, iteration,
                   visited_keys, evaluated_terminals, snapshot, snap_shared>>

BuildKuhnPokerGame ==
    /\ call' = [op |-> "KuhnPokerGame", arg |-> 0]
    /\ ret' = KuhnPokerGame(config.num_players, config.ante, config.bet_size,
                          config.enable_checks)
    /\ UNCHANGED <<config, state, raised, outcomes, pairVars, variantVars, appVars, nodes, stack, iteration,
                   visited_keys, evaluated_terminals, snapshot, snap_shared>>

BuildGeminiKuhnState ==
    /\ call' = [op |-> "gemini.KuhnState", arg |-> 0]
    /\ ret' = gemini_KuhnState(config.num_players)
    /\ UNCHANGED <<config, state, raised, outcomes, pairVars, variantVars, appVars, nodes, stack, iteration,
                   visited_keys, evaluated_terminals, snapshot, snap_shared>>

BuildGeminiKuhnPokerGame ==
    /\ call' = [op |-> "gemini.KuhnPokerGame", arg |-> 0]
    /\ ret' = gemini_KuhnPokerGame(config.num_players)
    /\ UNCHANGED <<config, state, raised, outcomes, pairVars, variantVars, appVars, nodes, stack, iteration,
                   visited_keys, evaluated_terminals, snapshot, snap_shared>>

BuildGptKuhnConfig ==
    /\ call' = [op |-> "gpt.KuhnConfig", arg |-> 0]
    /\ ret' = gpt_KuhnConfig(config.num_players, config.ante, config.bet_size)
    /\ UNCHANGED <<config, state, raised, outcomes, pairVars, variantVars, appVars, nodes, stack, iteration,
                   visited_keys, evaluated_terminals, snapshot, snap_shared>>

NextConstruct ==
    \/ BuildKuhnConfig \/ BuildKuhnState \/ BuildKuhnPokerGame
    \/ BuildGeminiKuhnState \/ BuildGeminiKuhnPokerGame \/ BuildGptKuhnConfig

SpecConstruct == InitConstruct /\ [][NextConstruct]_vars

\* ------------------------------------------------- playouts and traversal
\* Legal play of the game with ante = bet = 1 and checks off, for every
\* player count in the bounds, and the solver's traversal of the default
\* game: a caller plays before the solver is started, the solver runs on an
\* untouched initial state.
InitPlayout ==
    /\ Init
    /\ config.ante = 1
    /\ config.bet_size = 1
    /\ ~config.enable_checks

PlayGame ==
    /\ stack = << >>
    /\ iteration = 0
    /\ Next

Solve ==
    /\ config = DefaultConfig
    /\ Len(state.history) = 0
    /\ call.op \in {NoCall.op, "train_step", InCfr.op}
    /\ NextCFR

NextPlayout == PlayGame \/ Solve

SpecPlayout == InitPlayout /\ [][NextPlayout]_vars

\* ------------------------------------------------- vocabulary of the claims
Players(s) == 0..(s.num_players - 1)

\* all cards have been dealt
PastDealing(s) == Len(s.history) >= s.num_players

\* the Pass/Bet actions taken so far, in order
Decisions(s) == SubSeq(s.history, s.num_players + 1, Len(s.history))

\* the card player p received (the p-th chance action)
CardOf(s, p) == s.history[p + 1]

\* the player who took the j-th decision (j = 1 is the first one)
ActorOf(s, j) == (j - 1) % s.num_players

\* position of the first Bet among the decisions, 0 when nobody bet
FirstBetPos(s) ==
    LET d == Decisions(s)
        bets == {j \in 1..Len(d) : d[j] = BET}
    IN IF bets = {} THEN 0 ELSE CHOOSE j \in bets : \A k \in bets : j <= k

\* player p passed after the first bet
Folded(s, p) ==
    LET d == Decisions(s) IN
    /\ FirstBetPos(s) > 0
    /\ \E j \in (FirstBetPos(s) + 1)..Len(d) : ActorOf(s, j) = p /\ d[j] = PASS

\* the player holding the highest card among the players in P
HighestHolder(s, P) == CHOOSE p \in P : \A q \in P : CardOf(s, q) <= CardOf(s, p)

StandardGame == config.num_players = 2 /\ config.ante = 1 /\ config.bet_size = 1

\* ------------------------------------------------------------------ claims

\* C1: in every terminal state reached by legal actions, for every player
\* count, deal and Pass/Bet sequence, the returns of all players sum to 0,
\* both as returns() computes them from the stored contributions and as the
\* gemini returns() recomputes them from did_bet (ante 1, bet size 1).
C1_ZeroSum ==
    is_terminal(state) =>
        /\ SumOver(returns(state), Players(state)) = 0
        /\ (config.ante = 1 /\ config.bet_size = 1) =>
              /\ \A p \in Players(state) : gemini_did_bet_in_range(state, p)
              /\ SumOver(gemini_returns(state), Players(state)) = 0

\* C1 witness: a terminal 3-player state after a bet and a call, with
\* non-zero returns.
C1_Witness ==
    /\ is_terminal(state)
    /\ state.num_players = 3
    /\ state.first_bettor = 1
    /\ Cardinality({p \in Players(state) : did_bet(state, p)}) = 2
    /\ returns(state)[state.winner] > 0

\* C2: 2 players, ante 1, bet 1: the terminal betting sequences are pp, bp,
\* pbp, bb, pbb; pp pays the higher card +1/-1, a fold (bp, pbp) pays the
\* bettor +1 and the folder -1 whatever the cards, a call (bb, pbb) pays the
\* higher card +2/-2; deal 0,2 then pass, bet, pass returns [-1, +1].
C2_Payoffs ==
    (StandardGame /\ PastDealing(state)) =>
        LET d  == Decisions(state)
            hi == HighestHolder(state, Players(state))
            lo == 1 - hi
            r  == returns(state)
        IN /\ is_terminal(state) <=>
                  d \in {<<PASS, PASS>>, <<BET, PASS>>, <<PASS, BET, PASS>>,
                         <<BET, BET>>, <<PASS, BET, BET>>}
           /\ d = <<PASS, PASS>> => (r[hi] = 1 /\ r[lo] = -1)
           /\ d = <<BET, PASS>> => (r[0] = 1 /\ r[1] = -1)
           /\ d = <<PASS, BET, PASS>> => (r[1] = 1 /\ r[0] = -1)
           /\ d \in {<<BET, BET>>, <<PASS, BET, BET>>} => (r[hi] = 2 /\ r[lo] = -2)
           /\ state.history = <<0, 2, PASS, BET, PASS>> => (r[0] = -1 /\ r[1] = 1)

\* C2 witness: card 0 to player 0, card 2 to player 1, pass, bet, pass.
C2_Witness ==
    /\ StandardGame
    /\ state.history = <<0, 2, PASS, BET, PASS>>
    /\ is_terminal(state)

\* C3: with no bet, the state is terminal exactly when every player has
\* passed once, and the winner then is the holder of the highest dealt card.
C3_AllPassShowdown ==
    (PastDealing(state) /\ state.first_bettor = INVALID_PLAYER) =>
        /\ is_terminal(state) <=> Len(Decisions(state)) = state.num_players
        /\ is_terminal(state) =>
              state.winner = HighestHolder(state, Players(state))

\* C3 witness: three players all passed while the top card 3 stayed in the
\* deck, so the winner holds card 2.
C3_Witness ==
    /\ state.num_players = 3
    /\ state.first_bettor = INVALID_PLAYER
    /\ Len(Decisions(state)) = 3
    /\ is_terminal(state)
    /\ state.card_dealt[3] = INVALID_PLAYER
    /\ CardOf(state, state.winner) = 2

\* C4: once a player has bet, the state is terminal exactly when the
\* number of decisions equals player_count + first_bettor, never earlier
\* and never later, and at that moment every player other than the first
\* bettor has acted exactly once after the first bet.
C4_BetTermination ==
    (PastDealing(state) /\ state.first_bettor # INVALID_PLAYER) =>
        LET n           == state.num_players
            num_actions == Len(Decisions(state))
            after       == (FirstBetPos(state) + 1)..num_actions
        IN /\ ActorOf(state, FirstBetPos(state)) = state.first_bettor
           /\ num_actions <= n + state.first_bettor
           /\ is_terminal(state) <=> num_actions = n + state.first_bettor
           /\ is_terminal(state) =>
                 /\ Cardinality(after) = n - 1
                 /\ {ActorOf(state, j) : j \in after}
                        = Players(state) \ {state.first_bettor}

\* C4 witness: three players, player 2 bet first, players 0 and 1 answered
\* in a second round, 5 decisions in all.
C4_Witness ==
    /\ state.num_players = 3
    /\ state.first_bettor = 2
    /\ Len(Decisions(state)) = 5
    /\ is_terminal(state)

\* C5: at a showdown after a bet the winner is the holder of the highest
\* card among the players with did_bet, and no player who folded wins,
\* even when holding the highest dealt card.
C5_BetShowdown ==
    (is_terminal(state) /\ state.first_bettor # INVALID_PLAYER) =>
        LET stayed == {p \in Players(state) : did_bet(state, p)} IN
        /\ state.first_bettor \in stayed
        /\ state.winner = HighestHolder(state, stayed)
        /\ \A p \in Players(state) : Folded(state, p) => state.winner # p

\* C5 witness: a showdown with a caller, in which a player who folded
\* holds the highest dealt card.
C5_Witness ==
    /\ is_terminal(state)
    /\ state.first_bettor # INVALID_PLAYER
    /\ Cardinality({p \in Players(state) : did_bet(state, p)}) = 2
    /\ Folded(state, HighestHolder(state, Players(state)))

\* the step is a call of apply_action / chance_outcomes on state
IsApplyAction == call'.op = "apply_action"
IsChanceOutcomes == call'.op = "chance_outcomes"

\* the termination condition of apply_action holds in s
TerminationConditionMet(s) ==
    LET num_actions == Len(s.history) - s.num_players IN
    \/ s.first_bettor = INVALID_PLAYER /\ num_actions = s.num_players
    \/ s.first_bettor # INVALID_PLAYER /\ num_actions = s.num_players + s.first_bettor

\* C6: apply_action on a terminal state fails with an error, for every
\* action value, and changes no field of the state.
C6_TerminalApplyFails ==
    [][(IsApplyAction /\ is_terminal(state)) =>
           (raised' # "none" /\ state' = state)]_vars

\* C7: at a chance node apply_action with a card that is out of range or
\* already assigned fails with an error and overwrites no card_dealt entry.
C7_BadCardFails ==
    [][(/\ IsApplyAction
        /\ is_chance_node(state)
        /\ \/ ~(0 <= call'.arg /\ call'.arg < state.deck_size)
           \/ state.card_dealt[call'.arg] # INVALID_PLAYER) =>
           (raised' # "none" /\ state'.card_dealt = state.card_dealt)]_vars

\* C8: at a decision node apply_action with an action that is neither Pass
\* nor Bet fails with an error and the action is not appended to history.
C8_BadDecisionFails ==
    [][(/\ IsApplyAction
        /\ ~is_terminal(state)
        /\ ~is_chance_node(state)
        /\ call'.arg \notin {PASS, BET}) =>
           (raised' # "none" /\ state'.history = state.history)]_vars

\* C9: chance_outcomes() fails off a chance node (decision or terminal
\* node); at a chance node with k undealt cards it returns every undealt
\* card exactly once, each with probability 1/k.
C9_ChanceOutcomes ==
    [][IsChanceOutcomes =>
         IF ~is_chance_node(state)
         THEN raised' # "none"
         ELSE LET undealt == {card \in 0..state.num_players :
                                 state.card_dealt[card] = INVALID_PLAYER}
                  k == Cardinality(undealt)
              IN /\ raised' = "none"
                 /\ Len(outcomes') = k
                 /\ {outcomes'[i][1] : i \in 1..k} = undealt
                 /\ \A i \in 1..k : outcomes'[i][2] = <<1, k>>]_vars

\* C10: when apply_action meets a termination condition and finds no valid
\* winner it raises; it never returns with winner unset, leaving the state
\* non-terminal.
C10_NoSilentUnsetWinner ==
    [][(/\ IsApplyAction
        /\ ~is_terminal(state)
        /\ raised' = "none"
        /\ TerminationConditionMet(state')) =>
           state'.winner \in Players(state')]_vars

\* the cards dealt so far, as the chance actions of history record them
DealtCards(s) ==
    {s.history[i] : i \in 1..(IF PastDealing(s) THEN s.num_players ELSE Len(s.history))}

\* C11: card_dealt is injective in every state of legal play; during the
\* deal the i-th chance action assigns its card to player i-1; past the
\* dealing phase exactly player_count of the player_count+1 cards are
\* assigned, to players 0..player_count-1 in dealing order, and exactly one
\* card is unassigned.
C11_CardDealtInjective ==
    LET cards    == 0..state.num_players
        assigned == {c \in cards : state.card_dealt[c] # INVALID_PLAYER}
        k        == IF PastDealing(state) THEN state.num_players
                    ELSE Len(state.history)
    IN /\ \A c1, c2 \in assigned :
             state.card_dealt[c1] = state.card_dealt[c2] => c1 = c2
       /\ \A c \in assigned : state.card_dealt[c] \in Players(state)
       /\ assigned = DealtCards(state)
       /\ Cardinality(assigned) = k
       /\ \A p \in 0..(k - 1) : state.card_dealt[CardOf(state, p)] = p
       /\ PastDealing(state) =>
             /\ {state.card_dealt[c] : c \in assigned} = Players(state)
             /\ Cardinality(cards \ assigned) = 1

\* C11 witness: three players hold cards 3, 0 and 2 in that order, card 1
\* stayed in the deck, and play has gone on past the deal.
C11_Witness ==
    /\ state.num_players = 3
    /\ Len(state.history) > 3
    /\ state.card_dealt[3] = 0
    /\ state.card_dealt[0] = 1
    /\ state.card_dealt[2] = 2
    /\ state.card_dealt[1] = INVALID_PLAYER

\* C12: current_player() is the chance role while len(history) <
\* player_count, the terminal role once winner is set, and len(history) mod
\* player_count otherwise; the players act in the order 0, 1, ..., n-1,
\* repeating, player 0 first after the last deal: the player to act is the
\* number of decisions taken so far, modulo player_count.
C12_CurrentPlayer ==
    /\ current_player(state) =
          IF Len(state.history) < state.num_players THEN CHANCE_PLAYER
          ELSE IF state.winner # INVALID_PLAYER THEN TERMINAL_PLAYER
          ELSE Len(state.history) % state.num_players
    /\ (PastDealing(state) /\ ~is_terminal(state)) =>
          current_player(state) = ActorOf(state, Len(Decisions(state)) + 1)
    /\ (Len(state.history) = state.num_players) => current_player(state) = 0
    /\ is_terminal(state) => PastDealing(state)

\* C12 witness: three players, four decisions taken without reaching the
\* end, so player 1 acts for the second time.
C12_Witness ==
    /\ state.num_players = 3
    /\ Len(Decisions(state)) = 4
    /\ ~is_terminal(state)
    /\ current_player(state) = 1

\* C13: legal_actions() is, at a chance node, exactly the cards not yet
\* assigned (player_count+1 at the root, one fewer after each deal); at a
\* decision node exactly [Pass, Bet]; at a terminal node the empty list.
C13_LegalActions ==
    LET la == legal_actions(state) IN
    /\ is_chance_node(state) =>
          /\ {la[i] : i \in 1..Len(la)} = (0..state.num_players) \ DealtCards(state)
          /\ Len(la) = state.num_players + 1 - Len(state.history)
          /\ \A i, j \in 1..Len(la) : i < j => la[i] < la[j]
    /\ (~is_chance_node(state) /\ ~is_terminal(state)) => la = <<PASS, BET>>
    /\ is_terminal(state) => la = << >>
    /\ is_chance_node(state) <=> Len(state.history) < state.num_players

\* C13 witness: a chance node of the 3-player game after two deals, two of
\* the four cards left.
C13_Witness ==
    /\ state.num_players = 3
    /\ is_chance_node(state)
    /\ Len(state.history) = 2
    /\ legal_actions(state) = <<1, 3>>

DecisionNode(s) == ~is_terminal(s) /\ ~is_chance_node(s)

\* the information-set key of the player to act
KeyOf(s) == information_state_string(s, current_player(s)).value

\* C14: for two decision states of one game, each asked for the key of its
\* acting player: the keys are equal if and only if the acting players
\* hold the same card and the Pass/Bet sequences are the same; so the key
\* does not depend on the other players' cards.
C14_InfoStateKey ==
    (DecisionNode(state) /\ DecisionNode(other)) =>
        (KeyOf(state) = KeyOf(other)
            <=> /\ CardOf(state, current_player(state))
                       = CardOf(other, current_player(other))
                /\ Decisions(state) = Decisions(other))

\* C14 witness: two states built independently, where player 1 is to act
\* on the same card after the same betting, while player 0 holds different
\* cards; both have the key "1p".
C14_Witness ==
    /\ origin = "new"
    /\ DecisionNode(state) /\ DecisionNode(other)
    /\ current_player(state) = 1
    /\ CardOf(state, 0) # CardOf(other, 0)
    /\ KeyOf(state) = <<"1", "p">>
    /\ KeyOf(other) = <<"1", "p">>

\* C15: c = s.clone() equals s in history, card_dealt, first_bettor,
\* winner, pot and contributions; apply_action on the clone leaves every
\* field of s unchanged, and apply_action on s leaves the clone unchanged.
C15_CloneIndependent ==
    [][/\ call'.op = "clone" =>
             /\ other'.history = state.history
             /\ other'.card_dealt = state.card_dealt
             /\ other'.first_bettor = state.first_bettor
             /\ other'.winner = state.winner
             /\ other'.pot = state.pot
             /\ other'.ante = state.ante
       /\ call'.op = "other.apply_action" => state' = state
       /\ call'.op = "apply_action" => other' = other]_vars

\* C15 witness: other is a clone that went two actions further than the
\* state it was cloned from, which is still past the deal and unfinished.
C15_Witness ==
    /\ origin = "clone"
    /\ call.op = "other.apply_action"
    /\ DecisionNode(state)
    /\ Len(other.history) = Len(state.history) + 2
    /\ SubSeq(other.history, 1, Len(state.history)) = state.history
    /\ other.pot > state.pot

\* C17: get_strategy returns the positive parts of regret_sum divided by
\* their sum when that sum is positive and the uniform vector otherwise, so
\* [0.5, 0.5] when no entry is positive; the vector is never negative and
\* sums to 1.
PositivePart(x) == IF x[1] > 0 THEN x ELSE RZero

C17_RegretMatching ==
    call.op = "get_strategy" =>
        LET regret_sum == nodes[NodeKey].regret_sum
            total == RAdd(PositivePart(regret_sum[1]), PositivePart(regret_sum[2]))
        IN /\ Len(ret) = 2
           /\ \A i \in 1..2 : ret[i][1] >= 0
           /\ RAdd(ret[1], ret[2]) = ROne
           /\ total[1] > 0 =>
                 \A i \in 1..2 : RMul(ret[i], total) = PositivePart(regret_sum[i])
           /\ (\A i \in 1..2 : regret_sum[i][1] <= 0) => ret = <<Frac(1, 2), Frac(1, 2)>>

\* a call on a node with one negative and one positive regret
C17_Witness ==
    /\ call.op = "get_strategy"
    /\ nodes[NodeKey].regret_sum[1][1] < 0
    /\ nodes[NodeKey].regret_sum[2][1] > 0
    /\ ret = <<RZero, ROne>>

\* C16: one train_step traverses the whole game tree.  Starting from an
\* empty table, once the first train_step has ended the table holds exactly
\* the twelve information sets {0,1,2} x {"", "p", "b", "pb"}; every step
\* updates each of them and evaluates each of the 30 terminal states; later
\* steps neither add nor remove keys.
TwelveInfoSets ==
    {<<c>> \o h : c \in {"0", "1", "2"}, h \in {<< >>, <<"p">>, <<"b">>, <<"p", "b">>}}

ThirtyTerminals ==
    {<<c0, c1>> \o h : c0 \in 0..2, c1 \in 0..2,
         h \in {<<0, 0>>, <<0, 1, 0>>, <<0, 1, 1>>, <<1, 0>>, <<1, 1>>}}
      \ {<<c, c>> \o h : c \in 0..2,
         h \in {<<0, 0>>, <<0, 1, 0>>, <<0, 1, 1>>, <<1, 0>>, <<1, 1>>}}

C16_FullTraversal ==
    /\ iteration = 0 /\ stack = << >> => nodes = EmptyTable
    /\ iteration >= 1 => DOMAIN nodes = TwelveInfoSets
    /\ iteration >= 1 /\ stack = << >> =>
          /\ visited_keys = TwelveInfoSets
          /\ evaluated_terminals = ThirtyTerminals
          /\ Cardinality(evaluated_terminals) = 30

\* the second train_step has ended with the same twelve keys
C16_Witness ==
    /\ iteration > 1
    /\ stack = << >>
    /\ Cardinality(DOMAIN nodes) = 12
    /\ Cardinality(visited_keys) = 12
    /\ Cardinality(evaluated_terminals) = 30

\* C18: after any number of train steps the average strategy of every
\* information set is a probability distribution: strategy_sum divided by
\* its total when the total is positive, the uniform vector when it is 0
\* (as for a node no call has updated yet).
AverageOf(node, avg) ==
    LET total == RAdd(node.strategy_sum[1], node.strategy_sum[2]) IN
    /\ Len(avg) = 2
    /\ \A i \in 1..2 : avg[i][1] >= 0
    /\ RAdd(avg[1], avg[2]) = ROne
    /\ total[1] > 0 => \A i \in 1..2 : RMul(avg[i], total) = node.strategy_sum[i]
    /\ total[1] = 0 => avg = <<Frac(1, 2), Frac(1, 2)>>

C18_AverageStrategy ==
    /\ \A info_set \in DOMAIN nodes :
          AverageOf(nodes[info_set], get_average_strategy(nodes[info_set]))
    /\ AverageOf(CFRNode(2), get_average_strategy(CFRNode(2)))

\* a train step has ended and the average strategy of "0" is not uniform
C18_Witness ==
    /\ iteration >= 1
    /\ stack = << >>
    /\ get_average_strategy(nodes[<<"0">>]) = <<Frac(1, 4), Frac(3, 4)>>

\* C19: across train steps and at every visit inside a step, no entry of any
\* strategy_sum ever decreases: every reach probability a call of _cfr holds,
\* hence every weight passed to get_strategy, lies in [0, 1], and every
\* entry of a strategy is non-negative.
InUnitInterval(x) == RLeq(RZero, x) /\ RLeq(x, ROne)

C19_StrategySumMonotone ==
    [][ /\ \A info_set \in DOMAIN nodes : \A i \in 1..2 :
              RLeq(nodes[info_set].strategy_sum[i], nodes'[info_set].strategy_sum[i])
        /\ \A info_set \in DOMAIN nodes' : \A i \in 1..2 :
              /\ RLeq(RZero, nodes'[info_set].strategy_sum[i])
              /\ RLeq(RZero, nodes'[info_set].strategy[i])
        /\ \A d \in 1..Len(stack') :
              /\ InUnitInterval(stack'[d].p0)
              /\ InUnitInterval(stack'[d].p1)
      ]_vars

\* player 0 is visited again after a pass and a bet, under a reach
\* probability strictly between 0 and 1, and the node's sum has grown
C19_Witness ==
    /\ stack # << >>
    /\ Top.pc = "decision"
    /\ Len(Top.info_set) = 3
    /\ RLess(RZero, Top.p0) /\ RLess(Top.p0, ROne)
    /\ RLess(RZero, nodes[Top.info_set].strategy_sum[1])

\* C20: a snapshot returned by get_snapshot() shares no mutable data with
\* the solver: the train steps that follow leave every vector of the snapshot
\* unchanged, and writing into a vector of the snapshot changes no
\* regret_sum, strategy_sum or strategy of the solver.
C20_SnapshotIndependent ==
    [][ /\ call'.op \in {"train_step", "_cfr"} => snapshot' = snapshot
        /\ call'.op = "modify_snapshot" => nodes' = nodes
      ]_vars

\* a snapshot taken after the first train step was written to, and the
\* second train step has ended with regrets that differ from the snapshot's
C20_Witness ==
    /\ iteration = 2
    /\ stack = << >>
    /\ call.op = "_cfr"
    /\ DOMAIN snapshot = DOMAIN nodes
    /\ snapshot[<<"0">>].regret = <<Frac(-7, 8), Frac(3, 8)>>
    /\ nodes[<<"0">>].regret_sum = <<Frac(3, 8), Frac(3, 8)>>
    /\ \E info_set \in DOMAIN snapshot :
          snapshot[info_set].current_strategy[1][1] > snapshot[info_set].current_strategy[1][2]

\* C21: a reader of a snapshot that asks for an information set the solver
\* had not visited when the snapshot was taken (so a key the snapshot does
\* not hold, as every key before the first train step) receives the uniform
\* distribution as its average strategy, not an error and not a missing
\* entry.
C21_UnvisitedReadsUniform ==
    /\ (call.op = "get_strat" /\ call.arg \notin DOMAIN snapshot)
          => ret = <<Frac(1, 2), Frac(1, 2)>>
    /\ (call.op = "_log_snapshot" /\ call.arg \notin DOMAIN snapshot)
          => (~ret.missing /\ ret.avg_strategy = <<Frac(1, 2), Frac(1, 2)>>)

\* C23: building a configuration, a state or a game with a player count
\* below 2, or (where the entry point takes them) an ante or a bet size
\* that is not positive, fails with a configuration error at every entry
\* point, so that no state is created from such arguments.
ConstructorsWithBets == {"KuhnConfig", "KuhnState", "KuhnPokerGame", "gpt.KuhnConfig"}

C23_BadConfigFails ==
    LET bad == \/ config.num_players < 2
               \/ /\ call.op \in ConstructorsWithBets
                  /\ (config.ante <= 0 \/ config.bet_size <= 0)
    IN (call.op # NoCall.op /\ bad) => ret.raised = "ValueError"

\* C24: in every reachable state the stored contribution of every player p
\* is ante + bet_size if did_bet(p) and ante otherwise; so returns() read
\* from the stored contributions equals returns() computed from did_bet:
\* pot - contribution for the winner, -contribution for everybody else (for
\* ante = bet = 1 the computation of gemini/kuhn_poker.py with 2 and 1).
ContributionByDidBet(s, p) ==
    config.ante + (IF did_bet(s, p) THEN config.bet_size ELSE 0)

C24_ContributionMatchesDidBet ==
    /\ \A p \in Players(state) : state.ante[p] = ContributionByDidBet(state, p)
    /\ is_terminal(state) =>
          \A p \in Players(state) :
              returns(state)[p] =
                  IF p = state.winner
                  THEN state.pot - ContributionByDidBet(state, p)
                  ELSE -ContributionByDidBet(state, p)
    /\ (config.ante = 1 /\ config.bet_size = 1) => returns(state) = gemini_returns(state)

\* three players, player 1 bet first, player 2 folded and player 0 called
\* in the second round
C24_Witness ==
    /\ state.num_players = 3
    /\ is_terminal(state)
    /\ state.first_bettor = 1
    /\ did_bet(state, 0)
    /\ ~did_bet(state, 2)
    /\ state.ante[0] = config.ante + config.bet_size
    /\ config.bet_size # config.ante

\* C25: along every sequence of apply_action calls first_bettor changes at
\* most once, from unset to the player who makes the first Bet, and never
\* afterwards; winner changes at most once, from unset to a player index in
\* 0..num_players-1; and the state is terminal from the action that sets
\* winner onward.
C25_SetOnce ==
    [][IsApplyAction =>
         /\ state.first_bettor # INVALID_PLAYER => state'.first_bettor = state.first_bettor
         /\ state'.first_bettor # state.first_bettor =>
               /\ call'.arg = BET
               /\ state'.first_bettor = current_player(state)
               /\ state'.first_bettor \in Players(state)
         /\ (state.first_bettor = INVALID_PLAYER /\ PastDealing(state)
               /\ call'.arg = BET /\ raised' = "none") =>
               state'.first_bettor # INVALID_PLAYER
         /\ state.winner # INVALID_PLAYER => state'.winner = state.winner
         /\ state'.winner # state.winner => state'.winner \in Players(state)
         /\ is_terminal(state') <=> (is_terminal(state) \/ state'.winner # state.winner)
      ]_vars

\* C26: for every player count from 2 to the bound and every reachable
\* state, did_bet(p) holds exactly when the history contains a Bet taken by
\* player p.  The position looked up for a player other than the first
\* bettor (decision p + 1 for a player seated after the first bettor,
\* decision num_players + p + 1 for one seated before) is a decision of p
\* itself and lies after the first bet, so a Pass made before the first bet
\* is never read as a fold.
BetBy(s, p) ==
    \E j \in 1..Len(Decisions(s)) : ActorOf(s, j) = p /\ Decisions(s)[j] = BET

LookupPos(s, p) ==
    IF p > s.first_bettor THEN p + 1 ELSE s.num_players + p + 1

C26_DidBetMeansBet ==
    PastDealing(state) =>
        /\ \A p \in Players(state) : did_bet(state, p) <=> BetBy(state, p)
        /\ state.first_bettor # INVALID_PLAYER =>
              \A p \in Players(state) \ {state.first_bettor} :
                  /\ ActorOf(state, LookupPos(state, p)) = p
                  /\ LookupPos(state, p) > FirstBetPos(state)
                  /\ did_bet(state, p) =>
                        /\ LookupPos(state, p) <= Len(Decisions(state))
                        /\ Decisions(state)[LookupPos(state, p)] = BET

\* three players: player 0 passed, player 1 bet, player 2 folded, player 0
\* called in the second round
C26_Witness ==
    /\ state.num_players = 3
    /\ Decisions(state) = <<PASS, BET, PASS, BET>>
    /\ did_bet(state, 0)
    /\ ~did_bet(state, 2)

\* C27: every playout terminates.  Legal play deals exactly num_players
\* cards first and then takes at most 2 * num_players decisions, and a state
\* that is not terminal always has a legal action; so no reachable
\* non-terminal state has a history of 3 * num_players entries or more, and
\* the solver's recursion, one call per history entry, is never deeper than
\* 3 * num_players.
PlayoutBounded(s) ==
    /\ Len(s.history) < s.num_players => is_chance_node(s)
    /\ is_terminal(s) => PastDealing(s)
    /\ PastDealing(s) => Len(Decisions(s)) <= 2 * s.num_players
    /\ ~is_terminal(s) =>
          /\ Len(s.history) < 3 * s.num_players
          /\ legal_set(s) # {}

C27_PlayoutsTerminate ==
    /\ PlayoutBounded(state)
    /\ Len(stack) <= 3 * config.num_players
    /\ \A d \in 1..Len(stack) :
          /\ Len(stack[d].state.history) = d - 1
          /\ PlayoutBounded(stack[d].state)

\* the solver's deepest call: six calls active, the innermost on a terminal
\* state after two deals and three decisions
C27_Witness ==
    /\ Len(stack) = 3 * config.num_players
    /\ is_terminal(Top.state)
    /\ Len(Decisions(Top.state)) = 3

\* C28: in every reachable state pot is ante * num_players plus bet_size
\* times the number of Bet actions in the history, and pot is the sum of
\* the players' contributions; a deal and a Pass change neither pot nor any
\* contribution, and a Bet changes only pot and the acting player's
\* contribution (and first_bettor, history and winner as the game requires).
NumBets(s) ==
    IF PastDealing(s)
    THEN Cardinality({j \in 1..Len(Decisions(s)) : Decisions(s)[j] = BET})
    ELSE 0

C28_PotAccounting ==
    [][IsApplyAction =>
         /\ state.pot = config.ante * config.num_players + config.bet_size * NumBets(state)
         /\ state'.pot = config.ante * config.num_players + config.bet_size * NumBets(state')
         /\ state'.pot = SumOver([p \in Players(state') |-> state'.ante[p]], Players(state'))
         /\ (is_chance_node(state) \/ call'.arg = PASS) =>
               (state'.pot = state.pot /\ state'.ante = state.ante)
         /\ (~is_chance_node(state) /\ call'.arg = BET) =>
               /\ state'.pot = state.pot + config.bet_size
               /\ state'.ante = [state.ante EXCEPT ![current_player(state)] = @ + config.bet_size]
               /\ state'.card_dealt = state.card_dealt
      ]_vars

\* a call of the first bet has just been applied: pot holds the antes and
\* two bets
C28_Witness ==
    /\ call.op = "apply_action"
    /\ call.arg = BET
    /\ NumBets(state) = 2
    /\ state.pot = config.ante * config.num_players + 2 * config.bet_size
    /\ config.ante # config.bet_size

\* The history of s is num_players distinct cards of the deck followed by
\* betting actions only (fewer cards while the deal is under way).
HistoryWellFormed(s) ==
    LET dealt == IF Len(s.history) < s.num_players THEN Len(s.history) ELSE s.num_players IN
    /\ \A i \in 1..dealt : s.history[i] \in 0..s.num_players
    /\ \A i, j \in 1..dealt : i # j => s.history[i] # s.history[j]
    /\ \A i \in (dealt + 1)..Len(s.history) : s.history[i] \in {PASS, BET}

\* C29: the history is append-only. Every apply_action that raises nothing
\* makes the history the old history followed by the action applied, and in
\* every state of legal play the first min(len(history), num_players) entries
\* are pairwise distinct cards in 0..num_players and every later entry is
\* PASS or BET.
C29_HistoryAppendOnly ==
    [][IsApplyAction =>
         /\ HistoryWellFormed(state)
         /\ HistoryWellFormed(state')
         /\ raised' = "none" =>
               /\ Len(state'.history) = Len(state.history) + 1
               /\ SubSeq(state'.history, 1, Len(state.history)) = state.history
               /\ state'.history[Len(state'.history)] = call'.arg
      ]_vars

C29_Witness ==
    /\ call.op = "apply_action"
    /\ raised = "none"
    /\ state.num_players = 3
    /\ Len(state.history) = 3 * state.num_players - 1
    /\ HistoryWellFormed(state)
    /\ Decisions(state) = <<PASS, PASS, BET, PASS, BET>>

RECURSIVE ReachBelow(_, _)
\* The product, over the decision nodes of player p among the first k calls
\* of _cfr on the stack, of the probability the strategy there gives to the
\* action being explored.
ReachBelow(p, k) ==
    IF k = 0
    THEN ROne
    ELSE LET f == stack[k] IN
         IF f.pc = "decision" /\ current_player(f.state) = p
         THEN RMul(ReachBelow(p, k - 1), f.strategy[f.i])
         ELSE ReachBelow(p, k - 1)

\* Player p's reach probability of the node of the innermost call: the
\* actions chosen at the nodes above it, the node itself excluded.
IncomingReach(p) == ReachBelow(p, Len(stack) - 1)

\* The innermost call of _cfr passes from its entry to the loop over the
\* actions of a decision node.
EntersDecision ==
    /\ stack # << >>
    /\ Top.pc = "call"
    /\ Len(stack') = Len(stack)
    /\ Top'.pc = "decision"

\* The innermost call of _cfr leaves the loop over the actions of a decision
\* node and updates the regrets.
UpdatesRegret ==
    /\ stack # << >>
    /\ Top.pc = "decision"
    /\ Len(stack') = Len(stack)
    /\ Top'.pc = "return"

\* C30: at every decision node of player p that _cfr visits, strategy_sum of
\* the information set grows by strategy * (p's incoming reach probability)
\* and regret_sum[action] by (the other player's incoming reach probability)
\* * (util[action] - node_util), node_util being the strategy-weighted sum of
\* util; the incoming reach probabilities are products over the nodes above
\* and so hold no probability of p's action at this node.
C30_ReachWeights ==
    [][/\ EntersDecision =>
            LET I == Top'.info_set
                p == current_player(Top.state)
                old == IF I \in DOMAIN nodes THEN nodes[I].strategy_sum ELSE Zeros(2)
            IN \A a \in 1..2 :
                 nodes'[I].strategy_sum[a] =
                     RAdd(old[a], RMul(Top'.strategy[a], IncomingReach(p)))
       /\ UpdatesRegret =>
            LET I == Top.info_set
                p == current_player(Top.state)
            IN /\ Top.node_util = RAdd(RMul(Top.strategy[1], Top.util[1]),
                                       RMul(Top.strategy[2], Top.util[2]))
               /\ \A a \in 1..2 :
                    nodes'[I].regret_sum[a] =
                        RAdd(nodes[I].regret_sum[a],
                             RMul(IncomingReach(1 - p),
                                  RSub(Top.util[a], Top.node_util)))
      ]_vars

C30_Witness ==
    /\ stack # << >>
    /\ Top.pc = "return"
    /\ Top.info_set \in visited_keys
    /\ current_player(Top.state) = 0
    /\ RLess(RZero, IncomingReach(1))
    /\ RLess(IncomingReach(1), IncomingReach(0))
    /\ RLess(IncomingReach(0), ROne)
    /\ Top.util[1] # Top.util[2]
    /\ Top.strategy[1] # Top.strategy[2]

\* The innermost call of _cfr, on a terminal state, returns.
ReturnsAtTerminal ==
    /\ stack # << >>
    /\ Top.pc = "call"
    /\ Len(stack') = Len(stack)
    /\ Top'.pc = "return"

\* A child of a decision node hands its value to the loop of its caller.
ChildReturnsToDecision ==
    /\ Len(stack) > 1
    /\ Top.pc = "return"
    /\ stack[Len(stack) - 1].pc = "decision"
    /\ Len(stack') = Len(stack) - 1

\* The value the a-th child of the decision node of frame f returned, read
\* back from util: util holds it as returned for player 0 and negated for
\* player 1.
ChildValue(f, a) ==
    IF current_player(f.state) = 0 THEN f.util[a] ELSE RNeg(f.util[a])

\* C31: every value _cfr returns is in player 0's frame. At a terminal node
\* it is returns()[0]; at a decision node the value of each child enters util
\* as it is for player 0 and negated for player 1, and the value returned is
\* the strategy-weighted sum of the children's values for either mover (for
\* player 1 the node utility negated again).
C31_PlayerZeroFrame ==
    [][/\ ReturnsAtTerminal =>
            /\ is_terminal(Top.state)
            /\ Top'.value = <<returns(Top.state)[0], 1>>
       /\ ChildReturnsToDecision =>
            LET caller == stack[Len(stack) - 1]
                after == stack'[Len(stack')]
            IN /\ after.util[caller.i] =
                     (IF current_player(caller.state) = 0
                      THEN Top.value ELSE RNeg(Top.value))
               /\ ChildValue(after, caller.i) = Top.value
       /\ UpdatesRegret =>
            /\ Top'.value = RAdd(RMul(Top.strategy[1], ChildValue(Top, 1)),
                                RMul(Top.strategy[2], ChildValue(Top, 2)))
            /\ current_player(Top.state) = 1 => Top'.value = RNeg(Top.node_util)
      ]_vars

C31_Witness ==
    /\ stack # << >>
    /\ Top.pc = "return"
    /\ ~is_terminal(Top.state)
    /\ ~is_chance_node(Top.state)
    /\ current_player(Top.state) = 1
    /\ Top.strategy[1] # Top.strategy[2]
    /\ RLess(RZero, Top.node_util)
    /\ Top.value = RNeg(Top.node_util)
    /\ Top.util[1] # Top.util[2]

\* The cards no player holds in state s.
RemainingCards(s) == {c \in 0..(s.deck_size - 1) : s.card_dealt[c] = INVALID_PLAYER}

\* The innermost call of _cfr is in the loop of a chance node, or enters it.
AtChanceNode ==
    /\ stack # << >>
    /\ Top.pc \in {"call", "chance"}
    /\ ~is_terminal(Top.state)
    /\ is_chance_node(Top.state)

\* C32: at a chance node with k cards left _cfr calls itself once on each
\* remaining card, in the order of chance_outcomes, with p0 and p1 as it got
\* them; it accumulates 1/k times each child's value and returns that sum;
\* and none of its own steps changes the table of nodes.
C32_ChanceNode ==
    [][/\ AtChanceNode => nodes' = nodes
       /\ (AtChanceNode /\ Top.pc = "call") =>
            LET k == Cardinality(RemainingCards(Top.state))
                outcomes_ == Top'.strategy
            IN /\ Len(stack') = Len(stack)
               /\ Top'.pc = "chance"
               /\ Top'.expected_util = RZero
               /\ Top'.i = 1
               /\ Len(outcomes_) = k
               /\ {outcomes_[j][1] : j \in 1..k} = RemainingCards(Top.state)
               /\ \A j \in 1..k : outcomes_[j][2] = Frac(1, k)
       /\ (AtChanceNode /\ Top.pc = "chance" /\ Len(stack') > Len(stack)) =>
            LET child == stack'[Len(stack')] IN
            /\ Len(stack') = Len(stack) + 1
            /\ SubSeq(stack', 1, Len(stack)) = stack
            /\ Top.i <= Len(Top.strategy)
            /\ child.pc = "call"
            /\ child.state.history = Append(Top.state.history, Top.strategy[Top.i][1])
            /\ child.p0 = Top.p0
            /\ child.p1 = Top.p1
       /\ (Len(stack) > 1 /\ Top.pc = "return" /\ stack[Len(stack) - 1].pc = "chance") =>
            LET caller == stack[Len(stack) - 1]
                after == stack'[Len(stack')]
                k == Cardinality(RemainingCards(caller.state))
            IN /\ Len(stack') = Len(stack) - 1
               /\ nodes' = nodes
               /\ after.expected_util = RAdd(caller.expected_util,
                                             RMul(Frac(1, k), Top.value))
               /\ after.i = caller.i + 1
               /\ after.p0 = caller.p0 /\ after.p1 = caller.p1
       /\ (AtChanceNode /\ Top.pc = "chance" /\ Len(stack') = Len(stack)) =>
            /\ Top.i = Cardinality(RemainingCards(Top.state)) + 1
            /\ Top'.pc = "return"
            /\ Top'.value = Top.expected_util
      ]_vars

C32_Witness ==
    /\ stack # << >>
    /\ Top.pc = "return"
    /\ is_chance_node(Top.state)
    /\ Len(Top.state.history) = 1
    /\ Top.i = 3
    /\ Top.value # RZero
    /\ Top.value = Top.expected_util
    /\ iteration = 1

\* The innermost call of _cfr enters a call on a child.
EntersChild ==
    /\ stack # << >>
    /\ Len(stack') = Len(stack) + 1

\* The action on which the innermost call of _cfr, in one of its loops, calls
\* itself next.
LoopAction(f) ==
    IF f.pc = "chance" THEN f.strategy[f.i][1] ELSE decision_actions[f.i]

\* C33: _cfr never mutates the state it was given. The state of every call
\* in progress is the same before and after every step of a train_step, so
\* a caller's state is the same after a child returns as before the child was
\* entered, and every child is entered on the caller's state extended by its
\* own action alone, whatever its siblings did before.
C33_StateNotMutated ==
    [][/\ \A k \in 1..Len(stack) : k <= Len(stack') => stack'[k].state = stack[k].state
       /\ EntersChild =>
            LET child == stack'[Len(stack')] IN
            /\ child.state.history = Append(Top.state.history, LoopAction(Top))
            /\ child.state = apply_action(Top.state, LoopAction(Top)).state
            /\ child.state # Top.state
      ]_vars

\* C33 witness: the second child of a decision node has returned; the node's
\* state is still the one that gives its information set, two entries
\* shorter than the longest history its first child explored.
C33_Witness ==
    /\ Len(stack) = 3
    /\ Top.pc = "decision"
    /\ Top.i = 3
    /\ Len(Top.state.history) = 2
    /\ Top.state.pot = 2
    /\ Top.state.first_bettor = INVALID_PLAYER
    /\ Top.info_set = information_state_string(Top.state, 0).value
    /\ \E h \in evaluated_terminals :
           /\ Len(h) = 5
           /\ SubSeq(h, 1, 2) = Top.state.history

\* The table the first train_step leaves when the deals are evaluated in the
\* order of chance_outcomes.
SequentialTable ==
    (   <<"0">> :> [regret_sum |-> <<<<-7, 8>>, <<3, 8>>>>, strategy_sum |-> <<<<1, 2>>, <<3, 2>>>>, strategy |-> <<<<0, 1>>, <<1, 1>>>>]
     @@ <<"1", "p">> :> [regret_sum |-> <<<<-1, 8>>, <<1, 8>>>>, strategy_sum |-> <<<<1, 2>>, <<3, 2>>>>, strategy |-> <<<<0, 1>>, <<1, 1>>>>]
     @@ <<"0", "p", "b">> :> [regret_sum |-> <<<<1, 4>>, <<-3, 4>>>>, strategy_sum |-> <<<<1, 4>>, <<1, 4>>>>, strategy |-> <<<<1, 1>>, <<0, 1>>>>]
     @@ <<"1", "b">> :> [regret_sum |-> <<<<1, 4>>, <<3, 4>>>>, strategy_sum |-> <<<<1, 2>>, <<3, 2>>>>, strategy |-> <<<<0, 1>>, <<1, 1>>>>]
     @@ <<"2", "p">> :> [regret_sum |-> <<<<0, 1>>, <<0, 1>>>>, strategy_sum |-> <<<<1, 1>>, <<1, 1>>>>, strategy |-> <<<<1, 2>>, <<1, 2>>>>]
     @@ <<"2", "b">> :> [regret_sum |-> <<<<-9, 2>>, <<3, 2>>>>, strategy_sum |-> <<<<1, 2>>, <<3, 2>>>>, strategy |-> <<<<0, 1>>, <<1, 1>>>>]
     @@ <<"1">> :> [regret_sum |-> <<<<1, 8>>, <<3, 8>>>>, strategy_sum |-> <<<<1, 2>>, <<3, 2>>>>, strategy |-> <<<<0, 1>>, <<1, 1>>>>]
     @@ <<"0", "p">> :> [regret_sum |-> <<<<-3, 8>>, <<1, 8>>>>, strategy_sum |-> <<<<1, 2>>, <<3, 2>>>>, strategy |-> <<<<0, 1>>, <<1, 1>>>>]
     @@ <<"1", "p", "b">> :> [regret_sum |-> <<<<-1, 4>>, <<3, 4>>>>, strategy_sum |-> <<<<1, 4>>, <<1, 4>>>>, strategy |-> <<<<0, 1>>, <<1, 1>>>>]
     @@ <<"0", "b">> :> [regret_sum |-> <<<<1, 4>>, <<-3, 4>>>>, strategy_sum |-> <<<<3, 2>>, <<1, 2>>>>, strategy |-> <<<<1, 1>>, <<0, 1>>>>]
     @@ <<"2">> :> [regret_sum |-> <<<<-1, 4>>, <<1, 4>>>>, strategy_sum |-> <<<<1, 2>>, <<3, 2>>>>, strategy |-> <<<<0, 1>>, <<1, 1>>>>]
     @@ <<"2", "p", "b">> :> [regret_sum |-> <<<<-9, 2>>, <<3, 2>>>>, strategy_sum |-> <<<<1, 4>>, <<1, 4>>>>, strategy |-> <<<<0, 1>>, <<1, 1>>>>] )

\* The first cards in the order in which the root call takes them.
RootOrder(f) == [i \in 1..Len(f.strategy) |-> f.strategy[i][1]]

\* The root call of the first train_step is about to return.
FirstStepDone ==
    /\ Len(stack) = 1
    /\ Top.pc = "return"
    /\ iteration = 0

Assigned(s, c) == s.card_dealt[c] # INVALID_PLAYER

\* C35 as stated: past the dealing phase exactly one of the two top cards,
\* num_players and num_players - 1, is assigned to a player.
C35_ExactlyOneTopCard ==
    PastDealing(state) =>
        (Assigned(state, state.num_players) # Assigned(state, state.num_players - 1))

\* C35, amended: past the dealing phase exactly one card of the deck is
\* unassigned, so at least one of the two top cards, num_players and
\* num_players - 1, is assigned to a player; both are when the card left in
\* the deck is a lower one.
C35_AtLeastOneTopCard ==
    PastDealing(state) =>
        /\ Cardinality({c \in DOMAIN state.card_dealt : ~Assigned(state, c)}) = 1
        /\ Assigned(state, state.num_players) \/ Assigned(state, state.num_players - 1)
        /\ (Assigned(state, state.num_players) /\ Assigned(state, state.num_players - 1))
              <=> \E c \in 0..(state.num_players - 2) : ~Assigned(state, c)

\* C35 witness: a showdown without a bet that the holder of the second
\* highest card won, the top card being the one left in the deck.
C35_Witness ==
    /\ is_terminal(state)
    /\ state.first_bettor = INVALID_PLAYER
    /\ ~Assigned(state, state.num_players)
    /\ Assigned(state, state.num_players - 1)
    /\ state.winner = state.card_dealt[state.num_players - 1]
    /\ state.num_players = 3

\* C36: for every deal of two distinct cards and every betting string h of
\* length 0..3 played on a KuhnState, get_terminal_utility(cards, h,
\* len(h) mod 2) is None exactly when the state reached is not terminal, and
\* otherwise it is returns()[len(h) mod 2].
C36_TerminalUtilityAgrees ==
    call.op = "get_terminal_utility" =>
        /\ call.arg.none <=> ~is_terminal(state)
        /\ ~call.arg.none => call.arg.value = returns(state)[Len(ret.history) % 2]

\* An Optional[int] of gpt/kuhn_poker.py and an int of the other two files
\* name the same player: None stands for INVALID_PLAYER.
SamePlayer(optional, player) ==
    IF optional.none THEN player = INVALID_PLAYER ELSE player = optional.value

\* C37: with ante 1 and bet size 1 the three implementations agree after
\* every sequence of legal actions: on current_player(), legal_actions(),
\* is_terminal(), the winner (None in gpt where the others have
\* INVALID_PLAYER), the pot, returns() and, at a decision node, the acting
\* player's information_state_string; and no call raised, so the unchecked
\* history lookup of the gemini _did_bet, in apply_action and in returns(),
\* was always inside the history.
C37_ThreeAgree ==
    /\ raised = "none"
    /\ gemini_returns_raised(gemini_state) = "none"
    /\ gemini_current_player(gemini_state) = current_player(state)
    /\ gpt_current_player(gpt_state) = current_player(state)
    /\ gemini_legal_actions(gemini_state) = legal_actions(state)
    /\ gpt_legal_actions(gpt_state) = legal_actions(state)
    /\ gemini_is_terminal(gemini_state) = is_terminal(state)
    /\ gpt_is_terminal(gpt_state) = is_terminal(state)
    /\ gemini_state.winner = state.winner
    /\ SamePlayer(gpt_state.winner, state.winner)
    /\ gemini_state.pot = state.pot
    /\ gpt_state.pot = state.pot
    /\ gemini_returns(gemini_state) = returns(state)
    /\ gpt_returns(gpt_state) = returns(state)
    /\ current_player(state) >= 0 =>
          LET key == information_state_string(state, current_player(state)) IN
          /\ key.raised = "none"
          /\ gemini_information_state_string(gemini_state) = key.value
          /\ gpt_information_state_string(gpt_state, gpt_current_player(gpt_state)) = key

\* C37 witness: three players, player 1 bet, player 2 folded and player 0
\* called: the showdown asked _did_bet about a player after the first bettor
\* and about one before it, and the three agree on a winner who is paid.
C37_Witness ==
    /\ call.op = "apply_action"
    /\ state.num_players = 3
    /\ Decisions(state) = <<PASS, BET, PASS, BET>>
    /\ is_terminal(state)
    /\ gemini_state.history = state.history
    /\ Len(gpt_state.history) = Len(state.history)
    /\ gpt_state.winner = Some(state.winner)
    /\ state.winner \in {0, 1}
    /\ gemini_returns(gemini_state)[state.winner] = 3
    /\ gemini_returns(gemini_state)[2] = -1

\* The calls of _cfr in progress that are inside the loop of a decision node.
DecisionFrames == {k \in 1..Len(stack) : stack[k].pc = "decision"}

\* C38: no information set occurs at two decision nodes of one path from the
\* root, so while a decision node's children are evaluated its node in the
\* table keeps the strategy get_strategy gave (the live vector of the node)
\* and its regret_sum: the only step that changes either, for the node of a
\* call in its loop, is that call's own regret update.
C38_NodeStableDuringChildren ==
    [][/\ \A j, k \in DecisionFrames :
             j # k => stack[j].info_set # stack[k].info_set
       /\ \A k \in DecisionFrames :
             LET I == stack[k].info_set IN
             /\ nodes[I].strategy = stack[k].strategy
             /\ nodes'[I].strategy = nodes[I].strategy
             /\ nodes'[I].regret_sum # nodes[I].regret_sum =>
                   (k = Len(stack) /\ UpdatesRegret)
      ]_vars

\* C38 witness: player 0 decided at the root and again after pass, bet; the
\* inner node has just updated its regrets and the root node still shows
\* the strategy the root call is using, which is not the uniform one.
C38_Witness ==
    /\ Len(stack) = 5
    /\ stack[3].pc = "decision"
    /\ stack[4].pc = "decision"
    /\ Top.pc = "return"
    /\ current_player(Top.state) = 0
    /\ Len(Top.info_set) = 3
    /\ Top.info_set[1] = stack[3].info_set[1]
    /\ nodes[stack[3].info_set].strategy = stack[3].strategy
    /\ stack[3].strategy # Uniform(2)
    /\ nodes[Top.info_set].regret_sum # Zeros(2)

\* ---------------------------------------------------------------- C39
\* The vocabulary of the playback: the steps of the recorded snapshots,
\* the 0-based index of the last one, and the three session keys.
Steps == session_state["cfr_history"]

LastIndex == Len(Steps) - 1

SelectedIndex == session_state["selected_step_index"]

IsPlaying == session_state["is_playing"]

\* The index is a place of the history.
IndexInRange == SelectedIndex \in 0..LastIndex

\* The slider value is the step of the snapshot on display.
StepValueInSync == session_state["step_value"] = Steps[SelectedIndex + 1]

\* The snapshots drawn since Play are the first, the second, ... each
\* once, and all of them when the playback has stopped.
PlayedInOrder ==
    /\ \A i \in 1..Len(page.played) : page.played[i] = i - 1
    /\ (page.played # << >> /\ ~IsPlaying) => Len(page.played) = Len(Steps)

\* An automatic rerun moves the index up by one.
AdvancesByOne == SelectedIndex' = SelectedIndex + 1

\* The run that switches the playback off leaves the last snapshot on.
StopsAtLast == (IsPlaying /\ ~IsPlaying') => SelectedIndex' = LastIndex

\* With nothing but automatic reruns from some run on, the playback is
\* switched off for good (checked under SpecPlaybackFair).
PlaybackStops ==
    <>[][AutoplayRerun]_vars => <>[](~page.should_autoplay)

\* C39: after Play and with no further input every rerun advances
\* selected_step_index by exactly one, the index stays within
\* 0..len(steps)-1, every recorded snapshot from the first one on is
\* displayed once, the playback stops at the last snapshot, and at the end
\* of every run step_value is steps[selected_step_index], also after Reset.
C39_Playback ==
    [][/\ AutoplayRerun => (AdvancesByOne /\ StopsAtLast)
       /\ page'.rendered => (IndexInRange' /\ StepValueInSync'
                             /\ PlayedInOrder')
      ]_vars

====
